---- MODULE Spec2Model ----
(***************************************************************************)
(* Model of the deployment orchestrator of aspire-to-coolify               *)
(* (src/api/deployer.ts): deployToCloudify, fetchExistingResources,        *)
(* deployDatabase, deployService and deployApplication, run against a      *)
(* remote client whose responses are chosen by the environment.            *)
(*                                                                         *)
(* A text that the code builds with a template literal is modelled as the  *)
(* sequence of its fragments (literal parts and interpolated values), so   *)
(* that "the message names X" is "X is one of the fragments". The marks   *)
(* of the log lines (check, cross, slashed circle) are written [v], [x],   *)
(* [/].                                                                   *)
(***************************************************************************)
EXTENDS Naturals, Sequences, FiniteSets, TLC

\* ------------------------------------------------------------------ bounds

\* Total number of resources of a model (over the four collections).
MaxResources == 2
\* Number of entries a list response carries.
MaxInventory == 1

\* ------------------------------------------------------------------ values

\* JavaScript's undefined, for an optional string field that is absent.
Undefined == "<undefined>"

\* JavaScript truthiness of an optional string: `if (existingUuid)`,
\* `response.error || 'Unknown error'`.
Truthy(s) == s # Undefined /\ s # ""

\* Resource names of the model and of the remote inventory.
Names == {"a", "b"}
InventoryNames == {"a"}
\* Identifiers the remote system reports for the entries of each list: an
\* identifier is a non-empty string, and no two remote resources share one.
InventoryUuids(list) ==
  CASE list = "listDatabases" -> {"u-db"}
    [] list = "listApplications" -> {"u-app"}
    [] OTHER -> {"u-svc"}
\* Identifiers the remote system reports for a created resource.
CreatedUuids == {"n1"}
\* Error texts of a remote rejection or of a thrown exception.
ErrorTexts == {"E"}

\* Store kinds of the models explored: a natively supported kind (mysql,
\* mongodb and redis take the same path through deployDatabase, each with its
\* own client method), the kind created through the PostgreSQL fallback, and
\* a kind outside DatabaseType (the tests' 'unknown').
DatabaseTypes == {"postgres", "sqlserver", "unknown"}
StorageTypes == {"minio"}
ServiceTypes == {"rabbitmq"}

DatabaseEntries == [name : Names, type : DatabaseTypes]
StorageEntries == [name : Names, type : StorageTypes]
ServiceEntries == [name : Names, type : ServiceTypes]
\* Application.project is optional: the type argument of AddProject<...>, or
\* absent (an empty one reads as absent in deployApplication).
Projects == {Undefined, "Projects_Api"}
ApplicationEntries == [name : Names, type : {"project"}, project : Projects]

\* Mutant: the services loop runs before the storage loop.
CollectionsServicesFirst == <<"databases", "services", "storage", "applications">>

\* The four collections of AspireApp the deployer reads, in the order it
\* walks them.
Collections == <<"databases", "storage", "services", "applications">>

Counts ==
  {c \in [1..4 -> 0..MaxResources] : c[1] + c[2] + c[3] + c[4] <= MaxResources}

\* The reference list of the models explored: one edge from every
\* application to every store, in the order of the applications.
References(dbs, apps) ==
  [k \in 1..(Len(apps) * Len(dbs)) |->
     [from |-> apps[((k - 1) \div Len(dbs)) + 1].name,
      to |-> dbs[((k - 1) % Len(dbs)) + 1].name]]

Models ==
  UNION { {[databases |-> d, storage |-> s, services |-> v, applications |-> a,
            references |-> References(d, a)] :
             d \in [1..c[1] -> DatabaseEntries],
             s \in [1..c[2] -> StorageEntries],
             v \in [1..c[3] -> ServiceEntries],
             a \in [1..c[4] -> ApplicationEntries]} : c \in Counts }

\* config.skipExisting is an optional boolean.
SkipExistingValues == {"true", "false", "undefined"}

\* ------------------------------------------------------------------ state

VARIABLES
  app,          \* the assembled model handed to deployToCloudify
  skipExisting, \* config.skipExisting
  github,       \* config.github: absent, or a repository without / with appUuid
  dryRun,       \* options.dryRun
  pc,           \* position of deployToCloudify
  existing,     \* the ExistingResources cache (null until fetched)
  cat,          \* which of the four loops is running (index in Collections)
  idx,          \* position in that loop's collection
  results,      \* the local results array
  response,     \* the response the client gave last: to a list call of the
                \* fetch, or to the create call of the current iteration
  outstanding,  \* remote calls issued and not yet resolved
  trace,        \* every log line, remote call and return, in order
  summary,      \* the value deployToCloudify resolves with
  fn,           \* the function of the parser or generator being called
  arg,          \* the argument it is called with
  ret           \* the value it returned

vars ==
  <<app, skipExisting, github, dryRun, pc, existing, cat, idx, results, response,
    outstanding, trace, summary, fn, arg, ret>>

\* ------------------------------------------------------------------ helpers

\* Map.set(key, value).
MapSet(m, k, v) == [n \in DOMAIN m \cup {k} |-> IF n = k THEN v ELSE m[n]]

\* Map.get(key): undefined when the key is absent.
MapGet(m, k) == IF k \in DOMAIN m THEN m[k] ELSE Undefined

EmptyMap == [n \in {} |-> Undefined]

\* `for (const e of data) map.set(e.name, e.uuid)`.
RECURSIVE SetAll(_, _)
SetAll(m, data) ==
  IF data = <<>> THEN m
  ELSE SetAll(MapSet(m, Head(data).name, Head(data).uuid), Tail(data))

\* `if (r.success && r.data) { for ... set }` of fetchExistingResources.
Inventory(r) == IF r.success /\ r.hasData THEN SetAll(EmptyMap, r.data) ELSE EmptyMap

NumStr(n) == <<"0", "1", "2", "3", "4", "5", "6", "7", "8", "9">>[n + 1]

\* Events of the trace. coll and idx name the loop iteration an event belongs
\* to (NoColl, 0 outside the loops):
\*   log     a line handed to the progress sink (what = "onProgress") or to
\*           console.warn
\*   check   the lookup of the resource's name in the fetched inventory
\*   deploy  the invocation of deployDatabase / deployService / deployApplication
\*   call    a client method is called; return: its promise settles
NoColl == ""
Ev(op, what, coll, i, msg) ==
  [op |-> op, what |-> what, coll |-> coll, idx |-> i, msg |-> msg]
\* Mutant: the lines go to the console, not to the sink the caller supplied.
LogEvToConsole(coll, i, msg) == Ev("log", "console.log", coll, i, msg)

LogEv(coll, i, msg) == Ev("log", "onProgress", coll, i, msg)
WarnEv(coll, i, msg) == Ev("log", "console.warn", coll, i, msg)
CheckEv(coll, i) == Ev("check", "get", coll, i, <<>>)
DeployEv(coll, i, what) == Ev("deploy", what, coll, i, <<>>)
CallEv(coll, i, what) == Ev("call", what, coll, i, <<>>)
ReturnEv(coll, i, what) == Ev("return", what, coll, i, <<>>)

\* A DeployResult; an absent optional field is Undefined (skipped: FALSE).
Result(success, resourceType, name, uuid, error, skipped) ==
  [success |-> success, resourceType |-> resourceType, name |-> name,
   uuid |-> uuid, error |-> error, skipped |-> skipped]

NoError == <<>>

\* Responses of a list call, {success, data?, error?}: a failure, a success
\* without data, a success with up to MaxInventory entries {name, uuid}. The
\* client turns every transport exception into a failure response, so a list
\* call always resolves.
InventoryEntries(list) == [name : InventoryNames, uuid : InventoryUuids(list)]
ListResponses(list) ==
  {[success |-> s, hasData |-> FALSE, data |-> <<>>] : s \in BOOLEAN}
  \cup UNION {{[success |-> TRUE, hasData |-> TRUE, data |-> d] :
                 d \in [1..k -> InventoryEntries(list)]} :
              k \in 0..MaxInventory}

NoResponse == [kind |-> "none", success |-> FALSE, uuid |-> Undefined, error |-> Undefined]

\* dbResponse, appResponse, svcResponse of fetchExistingResources, as the
\* run holds them: success and the presence of data.
Listed(r) ==
  [kind |-> "list", success |-> r.success, hasData |-> r.hasData,
   uuid |-> Undefined, error |-> Undefined]

\* Outcomes of a create call: a response {success, data?: {uuid}, error?},
\* or a thrown Error / thrown non-Error value.
CreateResponses ==
  {[kind |-> "response", success |-> TRUE, uuid |-> u, error |-> Undefined] :
     u \in CreatedUuids \cup {Undefined}}
  \cup {[kind |-> "response", success |-> FALSE, uuid |-> Undefined, error |-> e] :
     e \in ErrorTexts \cup {Undefined}}
  \cup {[kind |-> k, success |-> FALSE, uuid |-> Undefined, error |-> e] :
     k \in {"throwError", "throwValue"}, e \in ErrorTexts}


\* ------------------------------------------------------------------ per-category tables

\* resourceType of the results of each loop.
ResourceType(c) == <<"database", "service", "service", "application">>[c]

\* The wording of each loop's log lines.
Label(c) == <<"database", "storage service", "service", "application">>[c]
CapLabel(c) == <<"Database", "Storage service", "Service", "Application">>[c]

\* Mutant: the storage loop looks its resource up among the databases.
ExistingKeyStorageAmongDatabases(c) ==
  <<"databases", "databases", "services", "applications">>[c]

\* The inventory each loop looks its resource up in.
ExistingKey(c) == <<"databases", "services", "services", "applications">>[c]

Coll(c) == app[Collections[c]]

\* The heads of the four `for ... of` loops: the first position at or after
\* (c, i) that holds a resource, <<5, 1>> when every loop is exhausted.
RECURSIVE Seek(_, _)
Seek(c, i) ==
  IF c > 4 THEN <<5, 1>>
  ELSE IF i <= Len(Coll(c)) THEN <<c, i>>
  ELSE Seek(c + 1, 1)

\* `existing?.<map>.get(name)`.
ExistingUuid(c, name) ==
  IF existing.isNull THEN Undefined ELSE MapGet(existing[ExistingKey(c)], name)

\* `${x.name} (${x.type})` of the DRY RUN and Creating lines; the application
\* lines carry the name alone.
Described(c, r) == IF c = 4 THEN <<r.name>> ELSE <<r.name, " (", r.type, ")">>

\* ------------------------------------------------------------------ create functions

\* Mutant: every kind without a case of its own falls back to PostgreSQL.
DatabaseCallFallsBackByDefault(type) ==
  CASE type = "mysql" -> "createMysqlDatabase"
    [] type = "mongodb" -> "createMongoDatabase"
    [] type = "redis" -> "createRedisDatabase"
    [] OTHER -> "createPostgresDatabase"

\* The switch of deployDatabase: the client method each kind is created with,
\* Undefined for the default branch (no call).
DatabaseCall(type) ==
  CASE type = "postgres" -> "createPostgresDatabase"
    [] type = "mysql" -> "createMysqlDatabase"
    [] type = "mongodb" -> "createMongoDatabase"
    [] type = "redis" -> "createRedisDatabase"
    [] type = "sqlserver" -> "createPostgresDatabase"
    [] OTHER -> Undefined

\* The default branch of deployDatabase's switch.
UnsupportedResult(db) ==
  Result(FALSE, "database", db.name, Undefined,
         <<"Unsupported database type: ", db.type>>, FALSE)

\* Mutant: a repository is always created through the public call, the
\* appUuid is not looked at.
ApplicationCallIgnoresAppUuid(gh) ==
  CASE gh = "private" -> "createPublicApplication"
    [] gh = "public" -> "createPublicApplication"
    [] OTHER -> "createDockerImageApplication"

\* The branches of deployApplication on config.github.
ApplicationCall(gh) ==
  CASE gh = "private" -> "createPrivateGithubAppApplication"
    [] gh = "public" -> "createPublicApplication"
    [] OTHER -> "createDockerImageApplication"

\* imageName of deployApplication's fallback branch.
ImageName(application) ==
  IF application.project # Undefined THEN application.project ELSE application.name

\* What the payload of a create call carries beyond the resource's own
\* fields: docker_registry_image_name of a DockerImageApplicationPayload.
CreatePayload(x, call) ==
  IF call = "createDockerImageApplication" THEN <<ImageName(x)>> ELSE <<>>

\* Mutant: success alone makes a success result (`if (response.success)`),
\* whether or not the response carries data.
SettledOnSuccessAlone(resourceType, name, r) ==
  IF r.kind = "response"
  THEN IF r.success
       THEN [threw |-> FALSE,
             result |-> Result(TRUE, resourceType, name, r.uuid, NoError, FALSE)]
       ELSE [threw |-> FALSE,
             result |-> Result(FALSE, resourceType, name, Undefined,
                               IF Truthy(r.error) THEN <<r.error>>
                               ELSE <<"Unknown error">>, FALSE)]
  ELSE [threw |-> FALSE,
        result |-> Result(FALSE, resourceType, name, Undefined, <<r.error>>, FALSE)]

\* Mutant: the create function has no catch, a thrown exception gets through.
SettledWithoutCatch(resourceType, name, r) ==
  IF r.kind = "response"
  THEN IF r.success /\ r.uuid # Undefined
       THEN [threw |-> FALSE,
             result |-> Result(TRUE, resourceType, name, r.uuid, NoError, FALSE)]
       ELSE [threw |-> FALSE,
             result |-> Result(FALSE, resourceType, name, Undefined,
                               IF Truthy(r.error) THEN <<r.error>>
                               ELSE <<"Unknown error">>, FALSE)]
  ELSE [threw |-> TRUE,
        result |-> Result(FALSE, resourceType, name, Undefined, <<r.error>>, FALSE)]

\* What a create function makes of the outcome of its client call: the
\* result it returns, or the exception it lets through (threw).
\* `if (response.success && response.data)`, the failure return, the catch.
Settled(resourceType, name, r) ==
  IF r.kind = "response"
  THEN IF r.success /\ r.uuid # Undefined
       THEN [threw |-> FALSE,
             result |-> Result(TRUE, resourceType, name, r.uuid, NoError, FALSE)]
       ELSE [threw |-> FALSE,
             result |-> Result(FALSE, resourceType, name, Undefined,
                               IF Truthy(r.error) THEN <<r.error>>
                               ELSE <<"Unknown error">>, FALSE)]
  ELSE [threw |-> FALSE,
        result |-> Result(FALSE, resourceType, name, Undefined, <<r.error>>, FALSE)]

deployDatabase(db, r) == Settled("database", db.name, r)
deployService(service, r) == Settled("service", service.name, r)
deployApplication(application, r) == Settled("application", application.name, r)

\* The create function each loop awaits.
DeployFunction(c) ==
  <<"deployDatabase", "deployService", "deployService", "deployApplication">>[c]

Deployed(c, x, r) ==
  CASE c = 1 -> deployDatabase(x, r)
    [] c = 4 -> deployApplication(x, r)
    [] OTHER -> deployService(x, r)

\* ------------------------------------------------------------------ summary

\* Mutant: a skipped result counts as successful too.
IsSuccessfulCountsSkipped(r) == r.success

IsSuccessful(r) == r.success /\ ~r.skipped
IsFailed(r) == ~r.success
IsSkipped(r) == r.skipped

\* `results.filter(...).length`, three times, and the returned object.
Summarize(rs) ==
  [results |-> rs,
   successful |-> Cardinality({i \in DOMAIN rs : IsSuccessful(rs[i])}),
   failed |-> Cardinality({i \in DOMAIN rs : IsFailed(rs[i])}),
   skipped |-> Cardinality({i \in DOMAIN rs : IsSkipped(rs[i])})]

NoSummary == [results |-> <<>>, successful |-> 0, failed |-> 0, skipped |-> 0]

NullExisting ==
  [isNull |-> TRUE, databases |-> EmptyMap, applications |-> EmptyMap,
   services |-> EmptyMap]

\* ------------------------------------------------------------------ behaviour

GithubValues == {"none", "public", "private"}

Init ==
  /\ app \in Models
  /\ skipExisting \in SkipExistingValues
  \* config.github is read by deployApplication alone: for a model without
  \* applications one value stands for all.
  /\ github \in (IF app.applications = <<>> THEN {"none"} ELSE GithubValues)
  /\ dryRun \in BOOLEAN
  /\ pc = "start"
  /\ existing = NullExisting
  /\ cat = 1
  /\ idx = 1
  /\ results = <<>>
  /\ response = NoResponse
  /\ outstanding = <<>>
  /\ trace = <<>>
  /\ summary = NoSummary
  /\ fn = "deployToCloudify"
  /\ arg = <<>>
  /\ ret = <<>>

\* Mutant: the inventory is fetched in a dry run too.
StartAlwaysFetches ==
  /\ pc = "start"
  /\ pc' = "listDatabases"
  /\ existing' = [NullExisting EXCEPT !.isNull = FALSE]
  /\ trace' = trace \o <<LogEv(NoColl, 0, <<"Fetching existing resources...">>),
                         CallEv(NoColl, 0, "listDatabases")>>
  /\ outstanding' = <<"listDatabases">>
  /\ UNCHANGED <<fn, arg, ret, app, skipExisting, github, dryRun, cat, idx, results, response, summary>>

\* deployToCloudify up to its first await: either straight into the loops
\* (dry run) or into fetchExistingResources up to `await listDatabases()`.
Start ==
  /\ pc = "start"
  /\ IF dryRun
     THEN /\ pc' = "loop"
          /\ cat' = Seek(1, 1)[1]
          /\ UNCHANGED <<existing, outstanding, trace>>
     ELSE /\ pc' = "listDatabases"
          /\ cat' = cat
          /\ existing' = [NullExisting EXCEPT !.isNull = FALSE]
          /\ trace' = trace \o <<LogEv(NoColl, 0, <<"Fetching existing resources...">>),
                                 CallEv(NoColl, 0, "listDatabases")>>
          /\ outstanding' = <<"listDatabases">>
  /\ UNCHANGED <<fn, arg, ret, app, skipExisting, github, dryRun, idx, results, response, summary>>

\* Mutant: only the databases are listed before the loops begin.
ListDatabasesReturnThenLoops ==
  /\ pc = "listDatabases"
  /\ \E r \in ListResponses("listDatabases") :
       /\ existing' = [existing EXCEPT !.databases = Inventory(r)]
       /\ response' = Listed(r)
  /\ trace' = Append(trace, ReturnEv(NoColl, 0, "listDatabases"))
  /\ outstanding' = <<>>
  /\ pc' = "loop"
  /\ cat' = Seek(1, 1)[1]
  /\ UNCHANGED <<fn, arg, ret, app, skipExisting, github, dryRun, idx, results, summary>>

\* Mutant: a list call that gives no usable answer ends the run.
ListDatabasesReturnGivesUp ==
  /\ pc = "listDatabases"
  /\ \E r \in ListResponses("listDatabases") :
       /\ existing' = [existing EXCEPT !.databases = Inventory(r)]
       /\ response' = Listed(r)
       /\ IF r.success /\ r.hasData
          THEN /\ trace' = trace \o <<ReturnEv(NoColl, 0, "listDatabases"),
                                      CallEv(NoColl, 0, "listApplications")>>
               /\ outstanding' = <<"listApplications">>
               /\ pc' = "listApplications"
               /\ UNCHANGED summary
          ELSE /\ trace' = Append(trace, ReturnEv(NoColl, 0, "listDatabases"))
               /\ outstanding' = <<>>
               /\ pc' = "done"
               /\ summary' = Summarize(results)
  /\ UNCHANGED <<fn, arg, ret, app, skipExisting, github, dryRun, cat, idx, results>>

\* listDatabases resolves; the databases map is filled and listApplications
\* is called.
ListDatabasesReturn ==
  /\ pc = "listDatabases"
  /\ \E r \in ListResponses("listDatabases") :
       /\ existing' = [existing EXCEPT !.databases = Inventory(r)]
       /\ response' = Listed(r)
  /\ trace' = trace \o <<ReturnEv(NoColl, 0, "listDatabases"),
                         CallEv(NoColl, 0, "listApplications")>>
  /\ outstanding' = <<"listApplications">>
  /\ pc' = "listApplications"
  /\ UNCHANGED <<fn, arg, ret, app, skipExisting, github, dryRun, cat, idx, results, summary>>

ListApplicationsReturn ==
  /\ pc = "listApplications"
  /\ \E r \in ListResponses("listApplications") :
       /\ existing' = [existing EXCEPT !.applications = Inventory(r)]
       /\ response' = Listed(r)
  /\ trace' = trace \o <<ReturnEv(NoColl, 0, "listApplications"),
                         CallEv(NoColl, 0, "listServices")>>
  /\ outstanding' = <<"listServices">>
  /\ pc' = "listServices"
  /\ UNCHANGED <<fn, arg, ret, app, skipExisting, github, dryRun, cat, idx, results, summary>>

\* listServices resolves; the sizes are logged and the loops begin.
ListServicesReturn ==
  /\ pc = "listServices"
  /\ \E r \in ListResponses("listServices") :
       LET e == [existing EXCEPT !.services = Inventory(r)] IN
       /\ existing' = e
       /\ response' = Listed(r)
       /\ trace' = trace \o
            <<ReturnEv(NoColl, 0, "listServices"),
              LogEv(NoColl, 0, <<"  Found ", NumStr(Cardinality(DOMAIN e.databases)),
                            " databases, ", NumStr(Cardinality(DOMAIN e.applications)),
                            " applications, ", NumStr(Cardinality(DOMAIN e.services)),
                            " services">>)>>
  /\ outstanding' = <<>>
  /\ pc' = "loop"
  /\ cat' = Seek(1, 1)[1]
  /\ UNCHANGED <<fn, arg, ret, app, skipExisting, github, dryRun, idx, results, summary>>

\* The result and the log line of a resource that takes no remote call:
\* dry run, skipped, already exists.
DryRunResult(c, x) == Result(TRUE, ResourceType(c), x.name, "dry-run-uuid", NoError, FALSE)
SkippedResult(c, x, uuid) == Result(TRUE, ResourceType(c), x.name, uuid, NoError, TRUE)
ExistsResult(c, x) ==
  Result(FALSE, ResourceType(c), x.name, Undefined,
         <<CapLabel(c), " \"", x.name, "\" already exists">>, FALSE)

CreatedLine(c, x, res) ==
  IF res.success
  THEN <<"  [v] Created ", Label(c), " ", x.name, " (uuid: ", res.uuid, ")">>
  ELSE <<"  [x] Failed to create ", Label(c), " ", x.name, ": ">> \o res.error

\* Mutant: an unset skipExisting counts as set (`skipExisting !== false`).
DispositionSkipsUnlessFalse(existingUuid) ==
  IF dryRun THEN "dryRun"
  ELSE IF Truthy(existingUuid)
  THEN IF skipExisting # "false" THEN "skipped" ELSE "exists"
  ELSE "create"

\* Mutant: a failed result makes the loop pass over the next resource.
AfterSkipsFollowerOnFailure(c, i, res) ==
  IF res.success THEN Seek(c, i + 1) ELSE Seek(c, i + 2)

\* Mutant: a resource whose create call failed is tried again.
AfterRetriesFailure(c, i, res) ==
  IF res.success \/ res.error[1] \notin ErrorTexts \cup {"Unknown error"}
  THEN Seek(c, i + 1) ELSE <<c, i>>

\* Mutant: the run stops at the first failed result.
AfterStopsOnFailure(c, i, res) == IF res.success THEN Seek(c, i + 1) ELSE <<5, 1>>

\* Where the run goes once iteration i of loop c has pushed result res:
\* `continue` or the end of the loop body, whatever the result is.
After(c, i, res) == Seek(c, i + 1)

\* The branch an iteration takes, from the tests at the head of a loop body:
\* `if (options.dryRun)`, `if (existingUuid)`, `if (config.skipExisting)`.
Disposition(existingUuid) ==
  IF dryRun THEN "dryRun"
  ELSE IF Truthy(existingUuid)
  THEN IF skipExisting = "true" THEN "skipped" ELSE "exists"
  ELSE "create"

\* One pass through the body of loop c, from the loop head to the next
\* await (or to the next loop head when the iteration makes no call).
\* Mutant: the loop body renames the record it has just handled.
ModelAfterIterationRenames(c, i) ==
  [app EXCEPT ![Collections[c]][i].name = "deployed"]

\* The model once the body of loop c has handled element i: the body and the
\* create functions read the record's fields (name, type, project, ...) and
\* build fresh payload objects; nothing is assigned to app or to a record.
ModelAfterIteration(c, i) == app

LoopStep(c) ==
  /\ pc = "loop"
  /\ cat = c
  /\ idx <= Len(Coll(c))
  /\ response' = NoResponse
  /\ LET x == Coll(c)[idx]
         coll == Collections[c]
         existingUuid == ExistingUuid(c, x.name)
         check == CheckEv(coll, idx)
         creating == LogEv(coll, idx,
                       <<"Creating ", Label(c), ": ">> \o Described(c, x) \o <<"...">>)
         deploy == DeployEv(coll, idx, DeployFunction(c))
         call == CASE c = 1 -> DatabaseCall(x.type)
                   [] c = 4 -> ApplicationCall(github)
                   [] OTHER -> "createService"
     IN
     IF Disposition(existingUuid) = "dryRun"
     THEN /\ trace' = Append(trace, LogEv(coll, idx,
               <<"[DRY RUN] Would create ", Label(c), ": ">> \o Described(c, x)))
          /\ results' = Append(results, DryRunResult(c, x))
          /\ cat' = After(c, idx, DryRunResult(c, x))[1]
          /\ idx' = After(c, idx, DryRunResult(c, x))[2]
          /\ UNCHANGED <<pc, outstanding>>
     ELSE IF Disposition(existingUuid) \in {"skipped", "exists"}
     THEN /\ IF Disposition(existingUuid) = "skipped"
             THEN /\ trace' = trace \o <<check, LogEv(coll, idx,
                       <<"  [/] Skipped ", Label(c), " \"", x.name,
                         "\" (already exists)">>)>>
                  /\ results' = Append(results, SkippedResult(c, x, existingUuid))
             ELSE /\ trace' = trace \o <<check, LogEv(coll, idx,
                       <<"  [x] ", CapLabel(c), " \"", x.name,
                         "\" already exists (use --skip-existing to skip)">>)>>
                  /\ results' = Append(results, ExistsResult(c, x))
          /\ cat' = After(c, idx, results'[Len(results')])[1]
          /\ idx' = After(c, idx, results'[Len(results')])[2]
          /\ UNCHANGED <<pc, outstanding>>
     ELSE IF call = Undefined
     THEN LET res == UnsupportedResult(x) IN
          /\ results' = Append(results, res)
          /\ trace' = trace \o <<check, creating, deploy,
                                 LogEv(coll, idx, CreatedLine(c, x, res))>>
          /\ cat' = After(c, idx, res)[1]
          /\ idx' = After(c, idx, res)[2]
          /\ UNCHANGED <<pc, outstanding>>
     ELSE /\ trace' = trace \o <<check, creating, deploy>>
               \o (IF c = 1 /\ x.type = "sqlserver"
                   THEN <<WarnEv(coll, idx,
                          <<"  Warning: SQL Server not supported, using PostgreSQL as fallback">>)>>
                   ELSE <<>>)
               \o <<Ev("call", call, coll, idx, CreatePayload(x, call))>>
          /\ outstanding' = Append(outstanding, call)
          /\ pc' = "create"
          /\ UNCHANGED <<cat, idx, results>>
  /\ app' = ModelAfterIteration(c, idx)
  /\ UNCHANGED <<fn, arg, ret, skipExisting, github, dryRun, existing, summary>>

\* Mutant: a resource that was created is entered in the inventory.
ExistingAfterCreateRecords(c, x, res) ==
  IF res.success
  THEN [existing EXCEPT ![ExistingKey(c)] = MapSet(@, x.name, res.uuid)]
  ELSE existing

\* The inventory once the create function of loop c has returned res for x:
\* the loop pushes and logs the result, the maps fetchExistingResources
\* built are only ever read.
ExistingAfterCreate(c, x, res) == existing

\* The create call of loop c settles: the create function returns its
\* result (or lets the exception through), the loop pushes and logs it.
CreateReturn(c) ==
  /\ pc = "create"
  /\ cat = c
  /\ \E r \in CreateResponses :
       LET x == Coll(c)[idx]
           coll == Collections[c]
           out == Deployed(c, x, r)
       IN
       /\ response' = r
       /\ outstanding' = Tail(outstanding)
       /\ IF out.threw
          THEN /\ pc' = "rejected"
               /\ trace' = Append(trace, ReturnEv(coll, idx, Head(outstanding)))
               /\ UNCHANGED <<results, cat, idx, existing>>
          ELSE /\ pc' = "loop"
               /\ results' = Append(results, out.result)
               /\ existing' = ExistingAfterCreate(c, x, out.result)
               /\ trace' = trace \o <<ReturnEv(coll, idx, Head(outstanding)),
                                      LogEv(coll, idx, CreatedLine(c, x, out.result))>>
               /\ cat' = After(c, idx, out.result)[1]
               /\ idx' = After(c, idx, out.result)[2]
  /\ app' = ModelAfterIteration(c, idx)
  /\ UNCHANGED <<fn, arg, ret, skipExisting, github, dryRun, summary>>

DeployDatabases == LoopStep(1)
DeployStorage == LoopStep(2)
DeployServices == LoopStep(3)
DeployApplications == LoopStep(4)

CreateDatabaseReturn == CreateReturn(1)
CreateStorageReturn == CreateReturn(2)
CreateServiceReturn == CreateReturn(3)
CreateApplicationReturn == CreateReturn(4)

\* After the last loop: the three counts and the return.
Finish ==
  /\ pc = "loop"
  /\ cat = 5
  /\ summary' = Summarize(results)
  /\ response' = NoResponse
  /\ pc' = "done"
  /\ UNCHANGED <<fn, arg, ret, app, skipExisting, github, dryRun, existing, cat, idx, results,
                 outstanding, trace>>

Next ==
  \/ Start
  \/ ListDatabasesReturn
  \/ ListApplicationsReturn
  \/ ListServicesReturn
  \/ DeployDatabases
  \/ DeployStorage
  \/ DeployServices
  \/ DeployApplications
  \/ CreateDatabaseReturn
  \/ CreateStorageReturn
  \/ CreateServiceReturn
  \/ CreateApplicationReturn
  \/ Finish

Spec == Init /\ [][Next]_vars

\* ------------------------------------------------------------------ properties

\* The resources of the model in the order stores, storage-services,
\* services, applications, each with its collection and its position in it.
Tagged(coll) == [i \in 1..Len(app[coll]) |-> [coll |-> coll, idx |-> i, x |-> app[coll][i]]]

Resources ==
  Tagged("databases") \o Tagged("storage") \o Tagged("services") \o Tagged("applications")

\* The inventory a resource of collection coll is looked up in.
InventoryOf(coll) ==
  CASE coll = "databases" -> existing.databases
    [] coll = "applications" -> existing.applications
    [] OTHER -> existing.services

\* The resource's name is an entry of its inventory.
Present(r) == ~existing.isNull /\ r.x.name \in DOMAIN InventoryOf(r.coll)

\* Positions of the trace that hold an event op of resource r.
EventsOf(r, op) ==
  {j \in DOMAIN trace :
     trace[j].coll = r.coll /\ trace[j].idx = r.idx /\ trace[j].op = op}

ListMethods == {"listDatabases", "listApplications", "listServices"}

Calls == {j \in DOMAIN trace : trace[j].op = "call"}

Returned == pc = "done"

\* C1: in a dry run no client method (list or create) is ever called, and the
\* returned list holds, for every resource of the model, one result with
\* success = true and the placeholder identifier.
C1_DryRunCallsNothing ==
  dryRun =>
    /\ Calls = {}
    /\ outstanding = <<>>
    /\ Returned =>
         /\ Len(summary.results) = Len(Resources)
         /\ \A k \in DOMAIN Resources :
              /\ summary.results[k].name = Resources[k].x.name
              /\ summary.results[k].success
              /\ summary.results[k].uuid = "dry-run-uuid"

C1_Witness == dryRun /\ Returned /\ Len(summary.results) >= 2

\* C2: in a non-dry run with skipExisting = true, every resource
\* whose name is in the fetched inventory gets a skipped success result that
\* carries the inventory's identifier, and no create call.
C2_PresentNameIsSkipped ==
  (~dryRun /\ skipExisting = "true") =>
    \A k \in DOMAIN Resources :
      LET r == Resources[k] IN
      Present(r) =>
        /\ EventsOf(r, "call") = {}
        /\ k <= Len(results) =>
             /\ results[k].success
             /\ results[k].skipped
             /\ results[k].name = r.x.name
             /\ results[k].uuid = InventoryOf(r.coll)[r.x.name]

C2_Witness ==
  /\ ~dryRun /\ skipExisting = "true" /\ Returned
  /\ \E k \in DOMAIN Resources :
       /\ Present(Resources[k])
       /\ Resources[k].coll = "storage"
       /\ results[k].skipped

\* C3: in a non-dry run with skipExisting false or unset, every
\* resource whose name is in the fetched inventory gets an already-exists
\* failure result, and no create call.
C3_PresentNameFails ==
  (~dryRun /\ skipExisting \in {"false", "undefined"}) =>
    \A k \in DOMAIN Resources :
      LET r == Resources[k] IN
      Present(r) =>
        /\ EventsOf(r, "call") = {}
        /\ k <= Len(results) =>
             /\ ~results[k].success
             /\ results[k].name = r.x.name
             /\ results[k].error # NoError
             /\ results[k].error[Len(results[k].error)] = "\" already exists"

C3_Witness ==
  /\ ~dryRun /\ skipExisting = "undefined" /\ Returned
  /\ \E k \in DOMAIN Resources :
       /\ Present(Resources[k])
       /\ ~results[k].success

\* C4: a create call that answers with a non-success response, or that
\* throws, gives the resource a result with success = false that carries the
\* error message; the exception never leaves deployToCloudify.
C4_CreateFailureBecomesResult ==
  /\ pc # "rejected"
  /\ (response.kind \notin {"none", "list"}
        /\ ~(response.kind = "response" /\ response.success)) =>
       LET k == Len(results) IN
       /\ k >= 1
       /\ ~Present(Resources[k])
       /\ results[k].name = Resources[k].x.name
       /\ ~results[k].success
       /\ results[k].error =
            <<IF response.kind = "response" /\ ~Truthy(response.error)
              THEN "Unknown error" ELSE response.error>>

C4_Witness ==
  /\ response.kind = "throwError"
  /\ pc = "loop"
  /\ results[Len(results)].error = <<"E">>

\* C5: a run is never cut short. Whatever the earlier results are, the run
\* stands at the first resource that has no result yet and can take a step,
\* and when deployToCloudify returns, every resource of the model has its
\* result.
C5_RunsToCompletion ==
  /\ pc # "rejected"
  /\ Returned \/ ENABLED Next
  /\ Len(results) <= Len(Resources)
  /\ (pc \in {"loop", "create"} /\ Len(results) < Len(Resources)) =>
       /\ cat <= 4
       /\ Collections[cat] = Resources[Len(results) + 1].coll
       /\ idx = Resources[Len(results) + 1].idx
  /\ Returned =>
       /\ Len(summary.results) = Len(Resources)
       /\ \A k \in DOMAIN Resources : summary.results[k].name = Resources[k].x.name

C5_Witness ==
  /\ Returned
  /\ Len(summary.results) = 2
  /\ ~summary.results[1].success
  /\ summary.results[1].error = <<"E">>

\* Positions of the trace that hold a create call (a client call made for a
\* resource), and the place of a collection in the fixed order.
CreateCalls == {j \in Calls : trace[j].coll # NoColl}

Rank(coll) ==
  CASE coll = "databases" -> 1
    [] coll = "storage" -> 2
    [] coll = "services" -> 3
    [] coll = "applications" -> 4

IsCallOrReturn(e) == e.op \in {"call", "return"}
IsCreateCall(e) == e.op = "call" /\ e.coll # NoColl

\* The calls and returns of the trace, and its create calls, in order.
Exchanges == SelectSeq(trace, IsCallOrReturn)
CreateCallSeq == SelectSeq(trace, IsCreateCall)

SameCall(a, b) == a.what = b.what /\ a.coll = b.coll /\ a.idx = b.idx

\* C6: at most one remote call is outstanding at any time; a call is made
\* only once the call before it has resolved (calls and returns alternate,
\* every return being the return of the call just before it); and the create
\* calls follow the order stores, storage-services, services, applications,
\* and the order of declaration within a collection.
C6_OneCallAtATimeInOrder ==
  /\ Len(outstanding) <= 1
  /\ LET x == Exchanges IN
     /\ \A i \in DOMAIN x :
          IF i % 2 = 1
          THEN x[i].op = "call"
          ELSE x[i].op = "return" /\ SameCall(x[i - 1], x[i])
     /\ outstanding = IF Len(x) % 2 = 1 THEN <<x[Len(x)].what>> ELSE <<>>
  /\ LET c == CreateCallSeq IN
     /\ \A i \in DOMAIN c : c[i].idx \in DOMAIN app[c[i].coll]
     /\ \A i \in 1..(Len(c) - 1) :
          \/ Rank(c[i].coll) < Rank(c[i + 1].coll)
          \/ c[i].coll = c[i + 1].coll /\ c[i].idx < c[i + 1].idx

C6_Witness ==
  \E i, j \in CreateCalls :
    /\ i < j
    /\ trace[i].coll = "storage"
    /\ trace[j].coll = "services"
    /\ pc = "create"

IsListCall(e) == e.op = "call" /\ e.what \in ListMethods
IsListReturn(e) == e.op = "return" /\ e.what \in ListMethods

\* The names of the list calls, and of the list returns, of a trace, in order.
ListCallNames(t) ==
  LET s == SelectSeq(t, IsListCall) IN [i \in DOMAIN s |-> s[i].what]

ListReturnNames(t) ==
  LET s == SelectSeq(t, IsListReturn) IN [i \in DOMAIN s |-> s[i].what]

ListRound == <<"listDatabases", "listApplications", "listServices">>

IsPrefix(p, q) == Len(p) <= Len(q) /\ \A i \in DOMAIN p : p[i] = q[i]

\* C7: a non-dry run lists stores, applications and services once each, in
\* that order, and all three calls have resolved before the first existence
\* check or create call of any resource.
C7_InventoryFetchedOnceFirst ==
  ~dryRun =>
    /\ IsPrefix(ListCallNames(trace), ListRound)
    /\ (\E j \in DOMAIN trace : trace[j].coll # NoColl) \/ pc \in {"loop", "create", "done"} =>
         /\ ListCallNames(trace) = ListRound
         /\ ListReturnNames(trace) = ListRound
    /\ \A m \in DOMAIN trace :
         (IsListCall(trace[m]) \/ IsListReturn(trace[m])) =>
           \A j \in 1..(m - 1) : trace[j].coll = NoColl

C7_Witness ==
  /\ ~dryRun
  /\ Returned
  /\ \E r \in DOMAIN Resources :
       EventsOf(Resources[r], "check") # {} /\ EventsOf(Resources[r], "call") # {}

\* The number of results that satisfy each of the three tests of the summary.
RECURSIVE Tally(_, _)
Tally(rs, which) ==
  IF rs = <<>> THEN 0
  ELSE Tally(Tail(rs), which) +
       (IF \/ which = "successful" /\ Head(rs).success /\ ~Head(rs).skipped
           \/ which = "failed" /\ ~Head(rs).success
           \/ which = "skipped" /\ Head(rs).skipped
        THEN 1 ELSE 0)

\* C8: the summary carries the whole result list, one result per resource,
\* and the counts of the successes that are not skipped, of the failures and
\* of the skipped results.
C8_SummaryCounts ==
  Returned =>
    /\ summary.results = results
    /\ Len(summary.results) = Len(Resources)
    /\ summary.successful = Tally(results, "successful")
    /\ summary.failed = Tally(results, "failed")
    /\ summary.skipped = Tally(results, "skipped")

C8_Witness ==
  /\ Returned
  /\ summary.skipped = 1
  /\ summary.failed = 1
  /\ summary.successful = 0

\* The store kinds with a create call of their own, and the kind created
\* through the fallback.
NativeKinds == {"postgres", "mysql", "mongodb", "redis"}
FallbackKind == "sqlserver"

IsUnsupportedStore(r) ==
  r.coll = "databases" /\ r.x.type \notin NativeKinds \cup {FallbackKind}

Fragments(msg) == {msg[i] : i \in DOMAIN msg}

\* C9 (as claimed): in a non-dry run every store of an unsupported kind gets
\* a failure result whose error message names the kind, and no create call.
C9_UnsupportedStoreFails ==
  ~dryRun =>
    \A k \in DOMAIN Resources :
      LET r == Resources[k] IN
      IsUnsupportedStore(r) =>
        /\ EventsOf(r, "call") = {}
        /\ k <= Len(results) =>
             /\ results[k].name = r.x.name
             /\ ~results[k].success
             /\ r.x.type \in Fragments(results[k].error)

\* C9 (amended): in a non-dry run every store of an unsupported kind gets no
\* create call, and when its name is not found in the fetched inventory it
\* gets one failure result whose error message names the kind.
C9_AbsentUnsupportedStoreFails ==
  ~dryRun =>
    \A k \in DOMAIN Resources :
      LET r == Resources[k] IN
      IsUnsupportedStore(r) =>
        /\ EventsOf(r, "call") = {}
        /\ (k <= Len(results) /\ ~Present(r)) =>
             /\ results[k].name = r.x.name
             /\ ~results[k].success
             /\ results[k].error = <<"Unsupported database type: ", r.x.type>>

C9_Witness ==
  /\ ~dryRun
  /\ Returned
  /\ \E k \in DOMAIN Resources :
       /\ IsUnsupportedStore(Resources[k])
       /\ ~Present(Resources[k])
       /\ ~results[k].success

\* The events of the iteration of resource r, in the order of the trace.
EventsFor(r) ==
  LET Mine(e) == e.coll = r.coll /\ e.idx = r.idx IN SelectSeq(trace, Mine)

\* Positions of such a sequence s where the progress sink is handed a line.
SinkLines(s) == {j \in DOMAIN s : s[j].op = "log" /\ s[j].what = "onProgress"}

\* Positions of s where the outcome is being worked out: the lookup in the
\* inventory, the create function, its client call and the return.
Steps(s) == {j \in DOMAIN s : s[j].op \in {"check", "deploy", "call", "return"}}

Deploys(s) == {j \in DOMAIN s : s[j].op = "deploy"}
Checks(s) == {j \in DOMAIN s : s[j].op = "check"}

\* The attempt: the invocation of the create function or, for a resource
\* that gets none, the existence check.
Attempt(s) == IF Deploys(s) # {} THEN Deploys(s) ELSE Checks(s)

\* The sink is handed a line before the first list call.
LoggedBeforeFetch ==
  \A j \in DOMAIN trace :
    IsListCall(trace[j]) =>
      \E m \in 1..(j - 1) : trace[m].op = "log" /\ trace[m].what = "onProgress"

LoggedAfterOutcome(s) == \E j \in SinkLines(s) : \A m \in Steps(s) : m < j

\* C10 (as claimed): the sink is handed a line before the inventory fetch,
\* and for every resource a line before its attempt and a line after its
\* outcome is known, skipped and already-exists resources included.
C10_LoggedBeforeAndAfter ==
  /\ LoggedBeforeFetch
  /\ \A k \in 1..Len(results) :
       LET s == EventsFor(Resources[k]) IN
       /\ \E j \in SinkLines(s) : \A m \in Attempt(s) : j < m
       /\ LoggedAfterOutcome(s)

\* C10 (amended): the sink is handed a line before the inventory fetch and,
\* for every resource, a line after its outcome is known; it is handed a line
\* before the attempt for the resources that reach a create function, while a
\* resource found in the inventory (skipped or already exists) gets a single
\* line, after its existence check.
C10_LoggedAfterAndBeforeCreate ==
  /\ LoggedBeforeFetch
  /\ \A k \in 1..Len(results) :
       LET s == EventsFor(Resources[k]) IN
       /\ LoggedAfterOutcome(s)
       /\ Deploys(s) # {} =>
            \E j \in SinkLines(s) : \A m \in Deploys(s) : j < m
       /\ (~dryRun /\ Present(Resources[k])) =>
            /\ Cardinality(SinkLines(s)) = 1
            /\ Checks(s) # {}
            /\ \A j \in SinkLines(s) : \A m \in Checks(s) : m < j

C10_Witness ==
  /\ ~dryRun
  /\ Returned
  /\ \E k, l \in DOMAIN Resources :
       /\ Present(Resources[k])
       /\ results[k].skipped
       /\ EventsOf(Resources[l], "return") # {}

\* C11: no step of a run changes the model: the four collections, the
\* reference list and every record in them stay as they were handed over, in
\* dry runs and real runs, whatever the remote system answers.
C11_ModelNeverMutated == [][app' = app]_vars

C11_Witness ==
  /\ ~dryRun
  /\ Returned
  /\ app.references # <<>>
  /\ \E k \in DOMAIN results : ~results[k].success
  /\ \E k \in DOMAIN results : results[k].success /\ ~results[k].skipped

\* The applications of the model that the inventory does not hold.
AbsentApplications ==
  {k \in DOMAIN Resources :
     Resources[k].coll = "applications" /\ ~Present(Resources[k])}

\* C20: in a real run an application absent from the inventory is created
\* through one call, never more, and exactly one once the run has returned:
\* createPrivateGithubAppApplication when config.github holds a repository
\* and an appUuid, createPublicApplication when it holds a repository alone,
\* createDockerImageApplication when there is no config.github, and then the
\* image name of the payload is the application's project, or its name when
\* it has no project.
C20_ApplicationCreateCallFollowsConfig ==
  ~dryRun =>
    \A k \in AbsentApplications :
      LET r == Resources[k]
          made == EventsOf(r, "call")
      IN /\ Cardinality(made) <= 1
         /\ Returned => Cardinality(made) = 1
         /\ \A j \in made :
              /\ github = "private" =>
                   trace[j].what = "createPrivateGithubAppApplication"
              /\ github = "public" => trace[j].what = "createPublicApplication"
              /\ github = "none" =>
                   /\ trace[j].what = "createDockerImageApplication"
                   /\ trace[j].msg =
                        <<IF r.x.project = Undefined THEN r.x.name ELSE r.x.project>>

C20_Witness ==
  /\ ~dryRun
  /\ Returned
  /\ github = "none"
  /\ \E k, l \in AbsentApplications :
       /\ Resources[k].x.project # Undefined
       /\ Resources[l].x.project = Undefined
       /\ \E j \in EventsOf(Resources[k], "call") :
            trace[j].msg = <<Resources[k].x.project>>
       /\ \E j \in EventsOf(Resources[l], "call") :
            trace[j].msg = <<Resources[l].x.name>>

\* resourceType of the results of a collection.
ResultTypeOf(coll) ==
  CASE coll = "databases" -> "database"
    [] coll = "applications" -> "application"
    [] OTHER -> "service"

\* C26: at every point of a run, dry or real, the result list is aligned
\* with the resources of the model taken in the order stores, storage,
\* services, applications and in model order within each: the k-th result
\* carries the name and the resource type of the k-th resource, whatever its
\* outcome; and the list deployToCloudify returns has one result per
\* resource.
C26_ResultsAlignedWithModel ==
  /\ Len(results) <= Len(Resources)
  /\ \A k \in DOMAIN results :
       /\ results[k].name = Resources[k].x.name
       /\ results[k].resourceType = ResultTypeOf(Resources[k].coll)
  /\ Returned =>
       /\ summary.results = results
       /\ Len(results) = Len(Resources)

\* A real run over two resources with different names in different
\* collections: the first skipped, the second failed.
C26_Witness ==
  /\ Returned
  /\ ~dryRun
  /\ Len(summary.results) = 2
  /\ Resources[1].coll # Resources[2].coll
  /\ Resources[1].x.name # Resources[2].x.name
  /\ summary.results[1].skipped
  /\ ~summary.results[2].success
  /\ summary.results[2].name = Resources[2].x.name

\* C27: at every point of a run, every create call is made for a resource
\* of the model and no resource has more than one, so the create calls are
\* never more than the resources, whatever the calls answer; a dry run makes
\* none; and when a real run has returned, every resource that is absent
\* from the inventory and is not a store of an unsupported kind has exactly
\* one create call, and every other resource has none.
C27_OneCreateCallPerResource ==
  /\ \A j \in CreateCalls :
       \E k \in DOMAIN Resources :
         Resources[k].coll = trace[j].coll /\ Resources[k].idx = trace[j].idx
  /\ \A k \in DOMAIN Resources : Cardinality(EventsOf(Resources[k], "call")) <= 1
  /\ Cardinality(CreateCalls) <= Len(Resources)
  /\ dryRun => CreateCalls = {}
  /\ (Returned /\ ~dryRun) =>
       \A k \in DOMAIN Resources :
         Cardinality(EventsOf(Resources[k], "call")) =
           (IF ~Present(Resources[k]) /\ ~IsUnsupportedStore(Resources[k]) THEN 1 ELSE 0)

\* A real run that has returned: the create call of one resource was
\* rejected and was its only one, and another resource, found in the
\* inventory, has none.
C27_Witness ==
  /\ Returned
  /\ ~dryRun
  /\ \E k, l \in DOMAIN Resources :
       /\ ~Present(Resources[k])
       /\ ~results[k].success
       /\ results[k].error = <<"E">>
       /\ Cardinality(EventsOf(Resources[k], "call")) = 1
       /\ Present(Resources[l])
       /\ EventsOf(Resources[l], "call") = {}

\* The result of a resource that was taken for existing: skipped, or the
\* already-exists failure.
TakenForExisting(res) ==
  \/ res.skipped
  \/ ~res.success /\ res.error # NoError
       /\ res.error[Len(res.error)] = "\" already exists"

\* In a real run every result so far was decided by the inventory alone: the
\* resource was taken for existing exactly when its name is in the inventory
\* of its collection; so of two resources of a collection that share a name
\* the inventory does not hold, the second is created like the first.
DecidedByInventory ==
  ~dryRun =>
    /\ \A k \in DOMAIN results :
         TakenForExisting(results[k]) <=> Present(Resources[k])
    /\ \A k, l \in DOMAIN results :
         (/\ k < l
          /\ Resources[k].coll = Resources[l].coll
          /\ Resources[k].x.name = Resources[l].x.name
          /\ ~Present(Resources[k])
          /\ ~IsUnsupportedStore(Resources[l])) =>
           Cardinality(EventsOf(Resources[l], "call")) = 1

\* A step taken after the fetch leaves the inventory as it is.
InventoryKept == (pc \in {"loop", "create"}) => (existing' = existing)

\* C28: once the inventory has been fetched no step of the run changes it,
\* whatever is created, and every existence decision follows it: with or
\* without skipExisting, two resources of a collection that share a name
\* absent from the inventory both get a create call.
C28_InventoryIsASnapshot ==
  /\ []DecidedByInventory
  /\ [][InventoryKept]_vars

\* skipExisting set, two stores of one name that the inventory does not
\* hold: both created.
C28_Witness ==
  /\ Returned
  /\ ~dryRun
  /\ skipExisting = "true"
  /\ Len(app.databases) = 2
  /\ app.databases[1].name = app.databases[2].name
  /\ results[1].success /\ ~results[1].skipped
  /\ results[2].success /\ ~results[2].skipped
  /\ Cardinality(CreateCalls) = 2

\* The list call that has just resolved gave a non-success response, or a
\* success response without data.
ListGaveNothing == response.kind = "list" /\ (~response.success \/ ~response.hasData)

\* A list call that gave nothing leaves its inventory empty and the run
\* going: the next list call is out, or the loops begin; over an empty
\* inventory no resource is taken for existing, and each that is not a store
\* of an unsupported kind gets its create call; a real run that returns has
\* made the three list calls and has a result for every resource.
ListFailureIsAnEmptyInventory ==
  ~dryRun =>
    /\ (pc = "listApplications" /\ ListGaveNothing) =>
         existing.databases = EmptyMap /\ outstanding = <<"listApplications">>
    /\ (pc = "listServices" /\ ListGaveNothing) =>
         existing.applications = EmptyMap /\ outstanding = <<"listServices">>
    /\ (pc = "loop" /\ ListGaveNothing) =>
         /\ existing.services = EmptyMap
         /\ ListCallNames(trace) = ListRound
         /\ results = <<>>
    /\ \A k \in DOMAIN results :
         InventoryOf(Resources[k].coll) = EmptyMap =>
           /\ ~TakenForExisting(results[k])
           /\ ~IsUnsupportedStore(Resources[k]) =>
                Cardinality(EventsOf(Resources[k], "call")) = 1
    /\ Returned =>
         /\ ListReturnNames(trace) = ListRound
         /\ Len(summary.results) = Len(Resources)

\* A step of the fetch after a list call has resolved leaves the inventory
\* of that call as it is.
FetchedInventoryKept ==
  /\ pc \in {"listApplications", "listServices", "loop", "create"} =>
       existing'.databases = existing.databases
  /\ pc \in {"listServices", "loop", "create"} =>
       existing'.applications = existing.applications
  /\ pc \in {"loop", "create"} => existing'.services = existing.services

\* C29: a list call that returns a non-success response, or a success
\* response without data, neither fails nor ends the run: its inventory is
\* empty and stays empty, the list calls that remain are made, and every
\* resource looked up in that inventory goes to the create path.
C29_ListFailureIsNotFatal ==
  /\ []ListFailureIsAnEmptyInventory
  /\ [][FetchedInventoryKept]_vars

\* The listing of the services has just given nothing in a real run that
\* skips existing resources: the two other list calls were made before it,
\* the stores' inventory is filled, the services' one is empty, and the
\* loops begin over a model that has a service.
C29_Witness ==
  /\ pc = "loop"
  /\ ~dryRun
  /\ skipExisting = "true"
  /\ ListGaveNothing
  /\ ListReturnNames(trace) = ListRound
  /\ existing.databases # EmptyMap
  /\ existing.services = EmptyMap
  /\ app.services # <<>>

\* A result is well-formed: a failure has an error message and no
\* identifier, a success has an identifier and no error.
HasMessage(res) == \E i \in DOMAIN res.error : Truthy(res.error[i])
WellFormed(res) ==
  IF res.success
  THEN Truthy(res.uuid) /\ res.error = NoError
  ELSE HasMessage(res) /\ res.uuid = Undefined

\* A skipped result of resource r is a success of a real run with
\* skipExisting set, and its identifier is the inventory's for r's name.
WellSkipped(r, res) ==
  /\ res.success
  /\ ~dryRun
  /\ skipExisting = "true"
  /\ Present(r)
  /\ res.uuid = InventoryOf(r.coll)[r.x.name]

\* C30: every result of the list, and of the returned summary, is
\* well-formed: success = false comes with an error message and no
\* identifier, success = true with an identifier and no error; a skipped
\* result is a success, occurs only in a non-dry run with skipExisting set,
\* and carries the identifier the inventory holds for the resource's name.
C30_ResultsWellFormed ==
  /\ \A k \in DOMAIN results :
       /\ WellFormed(results[k])
       /\ results[k].skipped => WellSkipped(Resources[k], results[k])
  /\ Returned => summary.results = results

\* A real run with skipExisting set has returned two results: a skipped one,
\* and the failure of a create call whose response gave no data and no
\* error text.
C30_Witness ==
  /\ Returned
  /\ ~dryRun
  /\ skipExisting = "true"
  /\ Len(summary.results) = 2
  /\ \E k \in DOMAIN summary.results : summary.results[k].skipped
  /\ \E k \in DOMAIN summary.results :
       /\ ~summary.results[k].success
       /\ summary.results[k].error = <<"Unknown error">>

\* ------------------------------------------------------------------ parser: extractors

\* The parser works on the fluent chains extractFluentChains returns. A chain
\* is [variableName, baseObject, rootMethod, rootArgs, name, typeArg,
\* chainedMethods, raw]; a chained method is [method, args, nested]: args are
\* the arguments parseArgs split, nested the calls of the lambda handed to
\* RunAsContainer, in the order extractNestedMethods returns them. An argument
\* is a string literal or an expression, with its text (never empty, and
\* without the quotes) and, for a named argument (`port: 8080`), its label.
Lit(t) == [lit |-> TRUE, text |-> t, label |-> Undefined]
Expr(t) == [lit |-> FALSE, text |-> t, label |-> Undefined]
Named(l, a) == [a EXCEPT !.label = l]
Call(mth, as) == [method |-> mth, args |-> as, nested |-> <<>>]
Lambda(mth, calls) == [method |-> mth, args |-> <<Expr("lambda")>>, nested |-> calls]
Nested(mth, as) == [method |-> mth, args |-> as]

\* extractFirstStringArg on rawArgs or on one argument: the content of the
\* first quoted literal, or null (written Undefined: every caller goes on
\* with `|| undefined` or `|| other`).
extractFirstStringArg(as) ==
  LET IsLit(a) == a.lit
      lits == SelectSeq(as, IsLit)
  IN IF lits = <<>> THEN Undefined ELSE lits[1].text

\* parseInt(text, 10) on the raw text of an argument: a quoted literal starts
\* with its quote and gives NaN, like a word that is not a number.
Numerals == {"5432", "6379"}
NaN == "NaN"
parseInt(a) == IF ~a.lit /\ a.text \in Numerals THEN a.text ELSE NaN

\* extractNamedArgs(args)[label]: the value of the last argument that
\* carries the label, or undefined.
NamedArg(as, l) ==
  LET Labelled(a) == a.label = l
      hits == SelectSeq(as, Labelled)
  IN IF hits = <<>> THEN Undefined ELSE hits[Len(hits)].text

\* What an extractor hands back: the record, or the exception it threw.
Extracted(v) == [threw |-> FALSE, value |-> v]
Threw(v) == [threw |-> TRUE, value |-> v]

DATABASE_METHODS ==
  [AddPostgres |-> "postgres", AddAzurePostgresFlexibleServer |-> "postgres",
   AddPostgresContainer |-> "postgres",
   AddSqlServer |-> "sqlserver", AddAzureSqlServer |-> "sqlserver",
   AddMySql |-> "mysql", AddMySqlContainer |-> "mysql",
   AddMongoDB |-> "mongodb", AddMongoDBContainer |-> "mongodb",
   AddRedis |-> "redis", AddRedisContainer |-> "redis"]

isDatabaseChain(chain) == chain.rootMethod \in DOMAIN DATABASE_METHODS

\* Mutant: the lambda's tag is kept only when the record has none yet.
processNestedMethodKeepsFirstTag(database, nested) ==
  CASE nested.method = "WithImage" ->
         IF nested.args = <<>> THEN Threw(database)
         ELSE Extracted([database EXCEPT !.image = nested.args[1].text])
    [] nested.method = "WithImageTag" ->
         IF nested.args = <<>> THEN Threw(database)
         ELSE IF database.imageTag # Undefined THEN Extracted(database)
         ELSE Extracted([database EXCEPT !.imageTag = nested.args[1].text])
    [] nested.method = "WithHostPort" ->
         Extracted([database EXCEPT !.hostPort =
           IF nested.args = <<>> \/ parseInt(nested.args[1]) = NaN
           THEN Undefined ELSE parseInt(nested.args[1])])
    [] nested.method = "WithDataVolume" ->
         Extracted([database EXCEPT !.hasDataVolume = TRUE])
    [] OTHER -> Extracted(database)

\* processNestedMethod: extractFirstStringArg(nested.args[0]) throws a
\* TypeError when the nested call has no argument.
processNestedMethod(database, nested) ==
  CASE nested.method = "WithImage" ->
         IF nested.args = <<>> THEN Threw(database)
         ELSE Extracted([database EXCEPT !.image = nested.args[1].text])
    [] nested.method = "WithImageTag" ->
         IF nested.args = <<>> THEN Threw(database)
         ELSE Extracted([database EXCEPT !.imageTag = nested.args[1].text])
    [] nested.method = "WithHostPort" ->
         Extracted([database EXCEPT !.hostPort =
           IF nested.args = <<>> \/ parseInt(nested.args[1]) = NaN
           THEN Undefined ELSE parseInt(nested.args[1])])
    [] nested.method = "WithDataVolume" ->
         Extracted([database EXCEPT !.hasDataVolume = TRUE])
    [] OTHER -> Extracted(database)

\* One turn of the switch of extractDatabase. RunAsContainer replays the
\* calls of its lambda in order, until one throws.
DatabaseMethod(database, mth) ==
  LET RECURSIVE ProcessNested(_, _)
      ProcessNested(st, nesteds) ==
        IF st.threw \/ nesteds = <<>> THEN st
        ELSE ProcessNested(processNestedMethod(st.value, Head(nesteds)), Tail(nesteds))
      \* extractEnvironment of the database extractor
      env == IF Len(mth.args) < 2 THEN <<>>
             ELSE <<[key |-> mth.args[1].text, value |-> mth.args[2].text]>>
  IN
  CASE mth.method = "WithImage" ->
         Extracted([database EXCEPT !.image = extractFirstStringArg(mth.args)])
    [] mth.method = "WithImageTag" ->
         Extracted([database EXCEPT !.imageTag = extractFirstStringArg(mth.args)])
    [] mth.method = "WithHostPort" ->
         IF mth.args = <<>> THEN Extracted(database)
         ELSE Extracted([database EXCEPT !.hostPort =
                IF parseInt(mth.args[1]) = NaN THEN Undefined ELSE parseInt(mth.args[1])])
    [] mth.method = "WithDataVolume" ->
         Extracted([database EXCEPT !.hasDataVolume = TRUE])
    [] mth.method = "WithEnvironment" ->
         Extracted([database EXCEPT !.environment = @ \o env])
    [] mth.method = "RunAsContainer" ->
         ProcessNested(Extracted(database), mth.nested)
    [] OTHER -> Extracted(database)

extractDatabase(chain) ==
  LET RECURSIVE Methods(_, _)
      Methods(st, mths) ==
        IF st.threw \/ mths = <<>> THEN st
        ELSE Methods(DatabaseMethod(st.value, Head(mths)), Tail(mths))
  IN Methods(
       Extracted([name |-> chain.name,
                  type |-> IF isDatabaseChain(chain)
                           THEN DATABASE_METHODS[chain.rootMethod] ELSE "postgres",
                  variableName |-> chain.variableName,
                  serverName |-> Undefined,
                  serverVariableName |-> Undefined,
                  image |-> Undefined,
                  imageTag |-> Undefined,
                  hostPort |-> Undefined,
                  hasDataVolume |-> FALSE,
                  environment |-> <<>>]),
       chain.chainedMethods)

\* The record extractChildDatabases builds for one AddDatabase chain, from
\* the first chain bound to the variable the call is made on; it throws when
\* the extraction of that parent chain throws.
ChildDatabase(chains, chain) ==
  LET Binds(c) == c.variableName = chain.baseObject
      parents == SelectSeq(chains, Binds)
  IN
  IF parents = <<>>
  THEN Extracted([name |-> chain.name, type |-> "postgres",
                  variableName |-> chain.variableName,
                  serverName |-> Undefined, serverVariableName |-> chain.baseObject,
                  image |-> Undefined, imageTag |-> Undefined, hostPort |-> Undefined,
                  hasDataVolume |-> FALSE, environment |-> <<>>])
  ELSE LET parentDb == extractDatabase(parents[1]) IN
       IF parentDb.threw THEN Threw(<<>>)
       ELSE Extracted(
              [name |-> chain.name,
               type |-> IF isDatabaseChain(parents[1])
                        THEN DATABASE_METHODS[parents[1].rootMethod] ELSE "postgres",
               variableName |-> chain.variableName,
               serverName |-> parents[1].name,
               serverVariableName |-> chain.baseObject,
               image |-> parentDb.value.image,
               imageTag |-> parentDb.value.imageTag,
               hostPort |-> parentDb.value.hostPort,
               hasDataVolume |-> parentDb.value.hasDataVolume,
               environment |-> parentDb.value.environment])

extractChildDatabases(chains) ==
  LET RECURSIVE Children(_, _)
      Children(st, rest) ==
        IF st.threw \/ rest = <<>> THEN st
        ELSE IF Head(rest).rootMethod # "AddDatabase" THEN Children(st, Tail(rest))
        ELSE LET child == ChildDatabase(chains, Head(rest)) IN
             IF child.threw THEN Threw(st.value)
             ELSE Children(Extracted(Append(st.value, child.value)), Tail(rest))
  IN Children(Extracted(<<>>), chains)

\* extractHttpEndpoint: the port is the first positional argument when it is
\* a number, overridden by the named argument port.
extractHttpEndpoint(as) ==
  [protocol |-> "http",
   isExternal |-> NamedArg(as, "isExternal") = "true",
   port |-> IF NamedArg(as, "port") # Undefined
            THEN parseInt(Expr(NamedArg(as, "port")))
            ELSE IF as # <<>> /\ as[1].label = Undefined /\ parseInt(as[1]) # NaN
            THEN parseInt(as[1]) ELSE Undefined,
   targetPort |-> IF NamedArg(as, "targetPort") # Undefined
                  THEN parseInt(Expr(NamedArg(as, "targetPort"))) ELSE Undefined,
   name |-> NamedArg(as, "name"),
   envVariable |-> NamedArg(as, "env")]

\* The endpoint WithExternalHttpEndpoints pushes.
ExternalEndpoint ==
  [protocol |-> "http", isExternal |-> TRUE, port |-> Undefined,
   targetPort |-> Undefined, name |-> Undefined, envVariable |-> Undefined]

CONTAINER_METHODS ==
  [AddMinioContainer |-> "minio", AddMinio |-> "minio",
   AddRabbitMQ |-> "rabbitmq", AddRabbitMQContainer |-> "rabbitmq",
   AddKeycloak |-> "keycloak", AddKeycloakContainer |-> "keycloak",
   AddSeq |-> "seq", AddSeqContainer |-> "seq",
   AddMailDev |-> "maildev", AddMailDevContainer |-> "maildev",
   AddKafka |-> "kafka", AddKafkaContainer |-> "kafka",
   AddElasticsearch |-> "elasticsearch", AddElasticsearchContainer |-> "elasticsearch",
   AddContainer |-> "custom"]

isContainerChain(chain) == chain.rootMethod \in DOMAIN CONTAINER_METHODS

\* One turn of the switch of extractContainer.
ContainerMethod(service, mth) ==
  LET \* extractEnvironment of the container extractor
      env == IF Len(mth.args) < 2 THEN <<>>
             ELSE <<[key |-> mth.args[1].text, value |-> mth.args[2].text,
                     isExpression |-> ~mth.args[2].lit]>>
  IN
  CASE mth.method = "WithImage" ->
         [service EXCEPT !.image = extractFirstStringArg(mth.args)]
    [] mth.method = "WithImageTag" ->
         [service EXCEPT !.imageTag = extractFirstStringArg(mth.args)]
    [] mth.method = "WithHostPort" ->
         IF mth.args = <<>> THEN service
         ELSE [service EXCEPT !.hostPort =
                 IF parseInt(mth.args[1]) = NaN THEN Undefined ELSE parseInt(mth.args[1])]
    [] mth.method = "WithEnvironment" ->
         [service EXCEPT !.environment = @ \o env]
    [] mth.method = "WithDataVolume" ->
         [service EXCEPT !.volumes = Append(@,
            [isData |-> TRUE, name |-> Undefined,
             mountPath |-> extractFirstStringArg(mth.args)])]
    [] mth.method = "WithBindMount" ->
         IF Len(mth.args) < 2 THEN service
         ELSE [service EXCEPT !.volumes = Append(@,
                 [isData |-> FALSE, name |-> mth.args[1].text,
                  mountPath |-> mth.args[2].text])]
    [] mth.method = "WithHttpEndpoint" ->
         [service EXCEPT !.endpoints = Append(@, extractHttpEndpoint(mth.args))]
    [] mth.method = "WithHttpsEndpoint" ->
         [service EXCEPT !.endpoints =
            Append(@, [extractHttpEndpoint(mth.args) EXCEPT !.protocol = "https"])]
    [] mth.method = "WithExternalHttpEndpoints" ->
         [service EXCEPT !.endpoints = Append(@, ExternalEndpoint)]
    [] mth.method = "WithReference" ->
         IF mth.args = <<>> THEN service
         ELSE [service EXCEPT !.references = Append(@,
                 IF extractFirstStringArg(mth.args) # Undefined
                 THEN extractFirstStringArg(mth.args) ELSE mth.args[1].text)]
    [] OTHER -> service

extractContainer(chain) ==
  LET RECURSIVE Methods(_, _)
      Methods(service, mths) ==
        IF mths = <<>> THEN service
        ELSE Methods(ContainerMethod(service, Head(mths)), Tail(mths))
  IN Methods(
       [name |-> chain.name,
        type |-> IF isContainerChain(chain)
                 THEN CONTAINER_METHODS[chain.rootMethod] ELSE "custom",
        variableName |-> chain.variableName,
        image |-> IF chain.rootMethod = "AddContainer" /\ Len(chain.rootArgs) > 1
                  THEN chain.rootArgs[2].text ELSE Undefined,
        imageTag |-> Undefined,
        hostPort |-> Undefined,
        environment |-> <<>>,
        volumes |-> <<>>,
        endpoints |-> <<>>,
        references |-> <<>>],
       chain.chainedMethods)

APPLICATION_METHODS ==
  [AddNpmApp |-> [type |-> "npm", buildPack |-> "nixpacks"],
   AddNodeApp |-> [type |-> "npm", buildPack |-> "nixpacks"],
   AddJavaScriptApp |-> [type |-> "npm", buildPack |-> "nixpacks"],
   AddProject |-> [type |-> "project", buildPack |-> "dockerfile"],
   AddDockerfile |-> [type |-> "dockerfile", buildPack |-> "dockerfile"],
   AddContainer |-> [type |-> "container", buildPack |-> "dockerfile"],
   AddExecutable |-> [type |-> "executable", buildPack |-> "dockerfile"]]

isApplicationChain(chain) == chain.rootMethod \in DOMAIN APPLICATION_METHODS

\* The texts that start with '.' or '/'.
PathTexts == {"./web", "/srv/web"}

\* extractReferenceTarget: the text of the argument up to its first '.'; the
\* arguments of the model are bare identifiers.
extractReferenceTarget(as) == IF as = <<>> THEN Undefined ELSE as[1].text

\* Mutant: a wait-for call replaces the dependency list.
WaitForOverwrites(application, target) == [application EXCEPT !.waitFor = <<target>>]

\* The application after a wait-for call that appends its target.
\* (A dependency list that is undefined is the empty sequence: the code
\* never leaves an empty list behind.)
WaitFor(application, target) == [application EXCEPT !.waitFor = Append(@, target)]

\* Mutant: a publish call records its mode and leaves the build pack alone.
PublishAsKeepsBuildPack(application, mode) == [application EXCEPT !.publishMode = mode]

\* The application after a publish call: PublishAsDockerFile and
\* PublishAsDockerfile assign the build pack and the mode, PublishAsContainer
\* the mode alone.
PublishAs(application, mode) ==
  IF mode = "dockerfile"
  THEN [application EXCEPT !.buildPack = "dockerfile", !.publishMode = "dockerfile"]
  ELSE [application EXCEPT !.publishMode = mode]

\* One turn of the switch of extractApplication; it throws where the code
\* calls a method of an argument that is not there.
ApplicationMethod(application, mth) ==
  LET \* extractEnvironment of the application extractor
      env == IF Len(mth.args) < 2 THEN <<>>
             ELSE <<[key |-> mth.args[1].text, value |-> mth.args[2].text,
                     isExpression |-> ~mth.args[2].lit]>>
  IN
  CASE mth.method = "WithEnvironment" ->
         Extracted([application EXCEPT !.environment = @ \o env])
    [] mth.method = "WithHttpEndpoint" ->
         Extracted([application EXCEPT
                      !.endpoints = Append(@, extractHttpEndpoint(mth.args))])
    [] mth.method = "WithHttpsEndpoint" ->
         Extracted([application EXCEPT !.endpoints =
            Append(@, [extractHttpEndpoint(mth.args) EXCEPT !.protocol = "https"])])
    [] mth.method = "WithExternalHttpEndpoints" ->
         Extracted([application EXCEPT !.endpoints = Append(@, ExternalEndpoint)])
    [] mth.method = "WithReference" ->
         IF extractReferenceTarget(mth.args) = Undefined THEN Extracted(application)
         ELSE Extracted([application EXCEPT
                           !.references = Append(@, extractReferenceTarget(mth.args))])
    [] mth.method \in {"PublishAsDockerFile", "PublishAsDockerfile"} ->
         Extracted(PublishAs(application, "dockerfile"))
    [] mth.method = "PublishAsContainer" ->
         Extracted(PublishAs(application, "container"))
    [] mth.method = "WithServiceBinding" ->
         IF mth.args = <<>> \/ parseInt(mth.args[1]) = NaN THEN Extracted(application)
         ELSE Extracted([application EXCEPT !.endpoints = Append(@,
                 [ExternalEndpoint EXCEPT !.isExternal = FALSE,
                                          !.port = parseInt(mth.args[1])])])
    [] mth.method = "WaitFor" ->
         IF extractReferenceTarget(mth.args) = Undefined THEN Extracted(application)
         ELSE Extracted(WaitFor(application, extractReferenceTarget(mth.args)))
    [] mth.method = "WithRunScript" ->
         IF mth.args = <<>> THEN Threw(application)
         ELSE Extracted([application EXCEPT !.runScript = mth.args[1].text])
    [] mth.method = "WithNpm" ->
         IF NamedArg(mth.args, "installCommand") = Undefined THEN Extracted(application)
         ELSE Extracted([application EXCEPT
                           !.npmInstallCommand = NamedArg(mth.args, "installCommand")])
    [] OTHER -> Extracted(application)

\* chain.typeArg is the generic argument of the root call, which the code
\* reads back from the raw text of the chain (AddProject<T>).
extractApplication(chain) ==
  LET RECURSIVE Methods(_, _)
      Methods(st, mths) ==
        IF st.threw \/ mths = <<>> THEN st
        ELSE Methods(ApplicationMethod(st.value, Head(mths)), Tail(mths))
  IN Methods(
       Extracted(
         [name |-> chain.name,
          type |-> IF isApplicationChain(chain)
                   THEN APPLICATION_METHODS[chain.rootMethod].type ELSE "project",
          variableName |-> chain.variableName,
          buildPack |-> IF isApplicationChain(chain)
                        THEN APPLICATION_METHODS[chain.rootMethod].buildPack
                        ELSE "dockerfile",
          environment |-> <<>>,
          endpoints |-> <<>>,
          references |-> <<>>,
          sourcePath |-> IF Len(chain.rootArgs) > 1 /\ chain.rootArgs[2].text \in PathTexts
                         THEN chain.rootArgs[2].text ELSE Undefined,
          runScript |-> NamedArg(chain.rootArgs, "runScriptName"),
          project |-> IF chain.rootMethod = "AddProject" THEN chain.typeArg ELSE Undefined,
          publishMode |-> Undefined,
          waitFor |-> <<>>,
          npmInstallCommand |-> Undefined]),
       chain.chainedMethods)

\* ------------------------------------------------------------------ parser: parseSource

\* createEmptyAspireApp()
EmptyAspireApp ==
  [databases |-> <<>>, storage |-> <<>>, services |-> <<>>, applications |-> <<>>,
   references |-> <<>>]

\* raw.substring(0, 100); the raw text of a chain is a sequence of characters.
ContextLength == 100
Substring(raw, n) == SubSeq(raw, 1, IF Len(raw) < n THEN Len(raw) ELSE n)

\* The message of the TypeError the extractors throw.
TypeErrorMessage == "Cannot read properties of undefined (reading 'match')"

\* The error the catch of one chain pushes, and the one the outer catch
\* pushes (which has no context).
ChainError(chain) ==
  [message |-> <<"Failed to parse chain: ", TypeErrorMessage>>,
   context |-> Substring(chain.raw, ContextLength)]
ParseFailed == [message |-> <<"Parse failed: ", TypeErrorMessage>>]

\* Mutant: the application test comes before the container test.
ProcessChainApplicationsFirst(st, chain) ==
  IF isDatabaseChain(chain)
  THEN LET db == extractDatabase(chain) IN
       IF db.threw THEN [st EXCEPT !.errors = Append(@, ChainError(chain))]
       ELSE [st EXCEPT !.app.databases = Append(@, db.value)]
  ELSE IF isApplicationChain(chain)
  THEN LET application == extractApplication(chain) IN
       IF application.threw THEN [st EXCEPT !.errors = Append(@, ChainError(chain))]
       ELSE [st EXCEPT !.app.applications = Append(@, application.value)]
  ELSE IF isContainerChain(chain)
  THEN LET container == extractContainer(chain)
           IsData(v) == v.isData IN
       IF container.type \in {"redis", "mongodb"}
       THEN [st EXCEPT !.app.databases = Append(@,
               [name |-> container.name, type |-> container.type,
                variableName |-> container.variableName,
                serverName |-> Undefined, serverVariableName |-> Undefined,
                image |-> container.image, imageTag |-> container.imageTag,
                hostPort |-> container.hostPort,
                hasDataVolume |-> SelectSeq(container.volumes, IsData) # <<>>,
                environment |-> container.environment])]
       ELSE IF container.type \in {"minio"}
       THEN [st EXCEPT !.app.storage = Append(@,
               [name |-> container.name, type |-> "minio",
                variableName |-> container.variableName,
                image |-> container.image, imageTag |-> container.imageTag,
                hostPort |-> container.hostPort,
                environment |-> container.environment,
                volumes |-> container.volumes])]
       ELSE [st EXCEPT !.app.services = Append(@, container)]
  ELSE st

\* One turn of the loop over the chains, with its try and catch.
ProcessChain(st, chain) ==
  IF isDatabaseChain(chain)
  THEN LET db == extractDatabase(chain) IN
       IF db.threw THEN [st EXCEPT !.errors = Append(@, ChainError(chain))]
       ELSE [st EXCEPT !.app.databases = Append(@, db.value)]
  ELSE IF isContainerChain(chain)
  THEN LET container == extractContainer(chain)
           IsData(v) == v.isData IN
       IF container.type \in {"redis", "mongodb"}
       THEN [st EXCEPT !.app.databases = Append(@,
               [name |-> container.name, type |-> container.type,
                variableName |-> container.variableName,
                serverName |-> Undefined, serverVariableName |-> Undefined,
                image |-> container.image, imageTag |-> container.imageTag,
                hostPort |-> container.hostPort,
                hasDataVolume |-> SelectSeq(container.volumes, IsData) # <<>>,
                environment |-> container.environment])]
       ELSE IF container.type \in {"minio"}
       THEN [st EXCEPT !.app.storage = Append(@,
               [name |-> container.name, type |-> "minio",
                variableName |-> container.variableName,
                image |-> container.image, imageTag |-> container.imageTag,
                hostPort |-> container.hostPort,
                environment |-> container.environment,
                volumes |-> container.volumes])]
       ELSE [st EXCEPT !.app.services = Append(@, container)]
  ELSE IF isApplicationChain(chain)
  THEN LET application == extractApplication(chain) IN
       IF application.threw THEN [st EXCEPT !.errors = Append(@, ChainError(chain))]
       ELSE [st EXCEPT !.app.applications = Append(@, application.value)]
  ELSE st

getConnectionStringEnvName(dbType) ==
  CASE dbType = "postgres" -> "DATABASE_URL"
    [] dbType = "sqlserver" -> "SQLSERVER_CONNECTION_STRING"
    [] dbType = "mysql" -> "MYSQL_URL"
    [] dbType = "mongodb" -> "MONGODB_URL"
    [] dbType = "redis" -> "REDIS_URL"
    [] OTHER -> "CONNECTION_STRING"

\* collection.find(r => r.variableName === ref || r.name === ref): the
\* records found, the first one first.
Targets(collection, ref) ==
  LET Hit(r) == r.variableName = ref \/ r.name = ref
  IN SelectSeq(collection, Hit)

\* The edge one reference of an application adds, if any.
ApplicationEdge(app0, from, ref) ==
  IF Targets(app0.databases, ref) # <<>>
  THEN <<[from |-> from, to |-> Targets(app0.databases, ref)[1].name,
          connectionStringEnv |->
            getConnectionStringEnvName(Targets(app0.databases, ref)[1].type)]>>
  ELSE IF Targets(app0.services, ref) # <<>>
  THEN <<[from |-> from, to |-> Targets(app0.services, ref)[1].name]>>
  ELSE IF Targets(app0.storage, ref) # <<>>
  THEN <<[from |-> from, to |-> Targets(app0.storage, ref)[1].name]>>
  ELSE <<>>

\* buildReferences: the edges of the applications, then those of the
\* services (to stores only).
buildReferences(app0) ==
  LET ServiceEdge(from, ref) ==
        IF Targets(app0.databases, ref) # <<>>
        THEN <<[from |-> from, to |-> Targets(app0.databases, ref)[1].name,
                connectionStringEnv |->
                  getConnectionStringEnvName(Targets(app0.databases, ref)[1].type)]>>
        ELSE <<>>
      RECURSIVE OfApplication(_, _)
      OfApplication(from, refs) ==
        IF refs = <<>> THEN <<>>
        ELSE ApplicationEdge(app0, from, Head(refs)) \o OfApplication(from, Tail(refs))
      RECURSIVE OfService(_, _)
      OfService(from, refs) ==
        IF refs = <<>> THEN <<>>
        ELSE ServiceEdge(from, Head(refs)) \o OfService(from, Tail(refs))
      RECURSIVE OfApplications(_)
      OfApplications(applications) ==
        IF applications = <<>> THEN <<>>
        ELSE OfApplication(Head(applications).name, Head(applications).references)
             \o OfApplications(Tail(applications))
      RECURSIVE OfServices(_)
      OfServices(services) ==
        IF services = <<>> THEN <<>>
        ELSE OfService(Head(services).name, Head(services).references)
             \o OfServices(Tail(services))
  IN OfApplications(app0.applications) \o OfServices(app0.services)

\* validateApp: the warnings it pushes, for duplicate names and then for
\* unresolved references.
validateApp(app0) ==
  LET NamesOf(collection) == [i \in DOMAIN collection |-> collection[i].name]
      RECURSIVE Duplicates(_, _)
      Duplicates(seen, names) ==
        IF names = <<>> THEN <<>>
        ELSE (IF Head(names) \in seen
              THEN <<<<"Duplicate resource name: ", Head(names)>>>> ELSE <<>>)
             \o Duplicates(seen \cup {Head(names)}, Tail(names))
      RECURSIVE UnresolvedOf(_, _)
      UnresolvedOf(application, refs) ==
        IF refs = <<>> THEN <<>>
        ELSE (IF /\ Targets(app0.databases, Head(refs)) = <<>>
                 /\ Targets(app0.services, Head(refs)) = <<>>
                 /\ Targets(app0.storage, Head(refs)) = <<>>
              THEN <<<<"Unresolved reference in ", application.name, ": ", Head(refs)>>>>
              ELSE <<>>)
             \o UnresolvedOf(application, Tail(refs))
      RECURSIVE Unresolved(_)
      Unresolved(applications) ==
        IF applications = <<>> THEN <<>>
        ELSE UnresolvedOf(Head(applications), Head(applications).references)
             \o Unresolved(Tail(applications))
  IN Duplicates({}, NamesOf(app0.databases) \o NamesOf(app0.services)
                    \o NamesOf(app0.storage) \o NamesOf(app0.applications))
     \o Unresolved(app0.applications)

\* Mutant: the servers that have children stay in the collection.
DatabasesAfterChildrenKeepsServers(databases, childDbs) == databases \o childDbs

\* app.databases after the filter on serversWithChildren and the pushes of
\* the children.
DatabasesAfterChildren(databases, childDbs) ==
  LET serversWithChildren ==
        {childDbs[i].serverVariableName : i \in DOMAIN childDbs} \ {Undefined}
      Kept(db) == db.variableName = Undefined
                  \/ db.variableName \notin serversWithChildren
  IN SelectSeq(databases, Kept) \o childDbs

\* parseSource from the chains extractFluentChains returned on: the loop
\* over the chains, the children, the references, the warnings, and the
\* outer catch.
parseSource(chains) ==
  LET RECURSIVE ProcessChains(_, _)
      ProcessChains(s, rest) ==
        IF rest = <<>> THEN s
        ELSE ProcessChains(ProcessChain(s, Head(rest)), Tail(rest))
      st == ProcessChains([app |-> EmptyAspireApp, errors |-> <<>>], chains)
      childDbs == extractChildDatabases(chains)
  IN IF childDbs.threw
     THEN [app |-> st.app, errors |-> Append(st.errors, ParseFailed), warnings |-> <<>>]
     ELSE LET assembled == [st.app EXCEPT
                   !.databases = DatabasesAfterChildren(@, childDbs.value)]
              linked == [assembled EXCEPT !.references = buildReferences(assembled)]
          IN [app |-> linked, errors |-> st.errors, warnings |-> validateApp(linked)]

\* ------------------------------------------------------------------ generator

ASPIRE_TO_COOLIFY_DB ==
  [postgres |-> "postgres", sqlserver |-> "postgres", mysql |-> "mysql",
   mongodb |-> "mongodb", redis |-> "redis"]

ASPIRE_TO_COOLIFY_SERVICE ==
  [minio |-> "minio", rabbitmq |-> "rabbitmq", keycloak |-> "keycloak", seq |-> "seq",
   maildev |-> "mailpit", kafka |-> "kafka", elasticsearch |-> "elasticsearch",
   custom |-> "custom"]

\* `${image}:${imageTag}`, the image alone, or undefined (no fragment).
ImageWithTag(r) ==
  IF r.image = Undefined THEN <<>>
  ELSE IF r.imageTag = Undefined THEN <<r.image>> ELSE <<r.image, ":", r.imageTag>>

generateDatabaseCommand(db) ==
  [command |-> "database:create",
   type |-> IF db.type \in DOMAIN ASPIRE_TO_COOLIFY_DB
            THEN ASPIRE_TO_COOLIFY_DB[db.type] ELSE "postgres",
   name |-> db.name,
   image |-> ImageWithTag(db)]

\* generateDatabaseCommand of the API generator: the request that creates
\* the store (the payload's options come from the caller, not the model).
apiGenerateDatabaseCommand(db) ==
  LET ASPIRE_TO_COOLIFY_API_DB ==
        [postgres |-> "postgresql", sqlserver |-> "postgresql", mysql |-> "mysql",
         mongodb |-> "mongodb", redis |-> "redis"]
      coolifyType == IF db.type \in DOMAIN ASPIRE_TO_COOLIFY_API_DB
                     THEN ASPIRE_TO_COOLIFY_API_DB[db.type] ELSE "postgresql"
  IN [endpoint |-> <<"/databases/", coolifyType>>,
      method |-> "POST",
      payload |-> [name |-> db.name, image |-> ImageWithTag(db),
                   is_public |-> db.hostPort # Undefined, public_port |-> db.hostPort],
      name |-> db.name,
      resourceType |-> "database",
      databaseType |-> coolifyType,
      comment |-> <<"Database: ", db.name, " (", db.type, ")">>]

generateStorageCommand(storage) ==
  [command |-> "service:create", type |-> "minio", name |-> storage.name,
   image |-> ImageWithTag(storage)]

generateServiceCommand(service) ==
  [command |-> "service:create",
   type |-> IF service.type \in DOMAIN ASPIRE_TO_COOLIFY_SERVICE
            THEN ASPIRE_TO_COOLIFY_SERVICE[service.type] ELSE "custom",
   name |-> service.name,
   image |-> ImageWithTag(service)]

generateApplicationCommand(application) ==
  [command |-> "application:create",
   type |-> IF application.buildPack \in {"nixpacks", "dockerfile", "static"}
            THEN application.buildPack ELSE "nixpacks",
   name |-> application.name,
   image |-> <<>>]

\* Mutant: the loop over the applications runs first.
generateApplicationsFirst(app0) ==
  [commands |->
     [i \in DOMAIN app0.applications |-> generateApplicationCommand(app0.applications[i])]
     \o [i \in DOMAIN app0.databases |-> generateDatabaseCommand(app0.databases[i])]
     \o [i \in DOMAIN app0.storage |-> generateStorageCommand(app0.storage[i])]
     \o [i \in DOMAIN app0.services |-> generateServiceCommand(app0.services[i])],
   errors |-> <<>>]

\* generate: the four loops, each pushing one command per resource. No
\* sub-generator throws on a record the extractors built, so the error list
\* stays empty.
generate(app0) ==
  [commands |->
     [i \in DOMAIN app0.databases |-> generateDatabaseCommand(app0.databases[i])]
     \o [i \in DOMAIN app0.storage |-> generateStorageCommand(app0.storage[i])]
     \o [i \in DOMAIN app0.services |-> generateServiceCommand(app0.services[i])]
     \o [i \in DOMAIN app0.applications |-> generateApplicationCommand(app0.applications[i])],
   errors |-> <<>>]

\* ------------------------------------------------------------------ parser and generator: behaviour

\* Number of chains in a source text.
MaxChains == 3

\* The raw text of a chain: a mark and the characters that follow it.
RawText(mark, n) == [i \in 1..n |-> IF i = 1 THEN mark ELSE "."]

Chain(variableName, baseObject, rootMethod, rootArgs, typeArg, chainedMethods, raw) ==
  [variableName |-> variableName, baseObject |-> baseObject, rootMethod |-> rootMethod,
   rootArgs |-> rootArgs, name |-> extractFirstStringArg(rootArgs),
   typeArg |-> typeArg, chainedMethods |-> chainedMethods, raw |-> raw]

\* The chains the source texts of the model are made of.
Chains ==
  [\* var server = builder.AddPostgres("pg").WithImage("img").WithImageTag("16")
   \*                .WithHostPort(5432).WithDataVolume();
   server |->
     Chain("server", "builder", "AddPostgres", <<Lit("pg")>>, Undefined,
           <<Call("WithImage", <<Lit("img")>>), Call("WithImageTag", <<Lit("16")>>),
             Call("WithHostPort", <<Expr("5432")>>), Call("WithDataVolume", <<>>)>>,
           RawText("s", 12)),
   \* var db = server.AddDatabase("db");
   child |->
     Chain("db", "server", "AddDatabase", <<Lit("db")>>, Undefined, <<>>,
           RawText("d", 6)),
   \* var cache = builder.AddRedis("cache").WithImageTag("7");
   cache |->
     Chain("cache", "builder", "AddRedis", <<Lit("cache")>>, Undefined,
           <<Call("WithImageTag", <<Lit("7")>>)>>, RawText("c", 8)),
   \* var bad = builder.AddPostgres("bad").RunAsContainer(c => c.WithImage()) ...;
   \* a text of more than a hundred characters
   failingStore |->
     Chain("bad", "builder", "AddPostgres", <<Lit("bad")>>, Undefined,
           <<Lambda("RunAsContainer", <<Nested("WithImage", <<>>)>>)>>,
           RawText("b", ContextLength + 1)),
   \* bad.AddDatabase("baddb");
   failingStoreChild |->
     Chain(Undefined, "bad", "AddDatabase", <<Lit("baddb")>>, Undefined, <<>>,
           RawText("e", 6)),
   \* builder.AddProject<Projects.Api>("api").WithReference(cache).WaitFor(cache);
   api |->
     Chain(Undefined, "builder", "AddProject", <<Lit("api")>>, "Projects.Api",
           <<Call("WithReference", <<Expr("cache")>>),
             Call("WaitFor", <<Expr("cache")>>)>>,
           RawText("a", 10)),
   \* builder.AddNpmApp("web", "./web").WithReference(server);
   web |->
     Chain(Undefined, "builder", "AddNpmApp", <<Lit("web"), Lit("./web")>>, Undefined,
           <<Call("WithReference", <<Expr("server")>>)>>, RawText("w", 10)),
   \* builder.AddProject<Projects.Worker>("worker").WithReference(db);
   worker |->
     Chain(Undefined, "builder", "AddProject", <<Lit("worker")>>, "Projects.Worker",
           <<Call("WithReference", <<Expr("db")>>)>>, RawText("k", 10)),
   \* builder.AddNpmApp("ui").WithRunScript();
   failingApplication |->
     Chain(Undefined, "builder", "AddNpmApp", <<Lit("ui")>>, Undefined,
           <<Call("WithRunScript", <<>>)>>, RawText("u", 9)),
   \* var mq = builder.AddRabbitMQ("mq");
   service |->
     Chain("mq", "builder", "AddRabbitMQ", <<Lit("mq")>>, Undefined, <<>>,
           RawText("m", 7)),
   \* var files = builder.AddMinio("files");
   storage |->
     Chain("files", "builder", "AddMinio", <<Lit("files")>>, Undefined, <<>>,
           RawText("f", 7)),
   \* builder.AddContainer("server", "nginx");
   gateway |->
     Chain(Undefined, "builder", "AddContainer", <<Lit("server"), Lit("nginx")>>,
           Undefined, <<>>, RawText("g", 9)),
   \* var blobs = builder.AddKeycloak("kc").WithReference(cache).WithReference(mq)
   \*               .WithReference(missing);
   auth |->
     Chain("blobs", "builder", "AddKeycloak", <<Lit("kc")>>, Undefined,
           <<Call("WithReference", <<Expr("cache")>>),
             Call("WithReference", <<Expr("mq")>>),
             Call("WithReference", <<Expr("missing")>>)>>,
           RawText("h", 11)),
   \* builder.AddMinio("blobs");
   bucket |->
     Chain(Undefined, "builder", "AddMinio", <<Lit("blobs")>>, Undefined, <<>>,
           RawText("o", 7)),
   \* builder.AddNpmApp("admin").WithReference(mq).WithReference(blobs)
   \*        .WithReference(missing);
   admin |->
     Chain(Undefined, "builder", "AddNpmApp", <<Lit("admin")>>, Undefined,
           <<Call("WithReference", <<Expr("mq")>>),
             Call("WithReference", <<Expr("blobs")>>),
             Call("WithReference", <<Expr("missing")>>)>>,
           RawText("n", 10)),
   \* builder.AddSqlServer("sql");
   sqlStore |->
     Chain(Undefined, "builder", "AddSqlServer", <<Lit("sql")>>, Undefined, <<>>,
           RawText("q", 8)),
   \* var secret = builder.AddParameter("secret");
   parameter |->
     Chain("secret", "builder", "AddParameter", <<Lit("secret")>>, Undefined, <<>>,
           RawText("p", 8))]

\* The chains of a source text, in the order of the text.
Sources == UNION {[1..n -> {Chains[k] : k \in DOMAIN Chains}] : n \in 0..MaxChains}

\* The variables of deployToCloudify, and their values while it is not
\* running.
deployerVars ==
  <<skipExisting, github, dryRun, existing, cat, idx, results, response, outstanding,
    trace, summary>>

NotDeploying ==
  /\ skipExisting = "undefined"
  /\ github = "none"
  /\ dryRun = FALSE
  /\ existing = NullExisting
  /\ cat = 1
  /\ idx = 1
  /\ results = <<>>
  /\ response = NoResponse
  /\ outstanding = <<>>
  /\ trace = <<>>
  /\ summary = NoSummary

ParserInit ==
  /\ fn = "parseSource"
  /\ arg \in Sources
  /\ ret = <<>>
  /\ pc = "call"
  /\ app = EmptyAspireApp
  /\ NotDeploying

\* parseSource returns: its result, and the model it assembled.
ParseSourceReturn ==
  /\ fn = "parseSource"
  /\ pc = "call"
  /\ ret' = parseSource(arg)
  /\ app' = ret'.app
  /\ pc' = "return"
  /\ UNCHANGED <<fn, arg>>
  /\ UNCHANGED deployerVars

\* generate runs on the assembled model; arg stays the source text the model
\* was parsed from. (The generators write nothing to the console: trace
\* stays as it is.)
Generate ==
  /\ fn = "parseSource"
  /\ pc = "return"
  /\ fn' = "generate"
  /\ ret' = generate(app)
  /\ UNCHANGED <<arg, app, pc>>
  /\ UNCHANGED deployerVars

\* The API generator runs on a store of the assembled model.
GenerateApiDatabase ==
  /\ fn = "parseSource"
  /\ pc = "return"
  /\ \E k \in DOMAIN app.databases :
       /\ arg' = app.databases[k]
       /\ ret' = apiGenerateDatabaseCommand(app.databases[k])
  /\ fn' = "generateDatabaseCommand"
  /\ UNCHANGED <<app, pc>>
  /\ UNCHANGED deployerVars

ParserNext ==
  \/ ParseSourceReturn
  \/ Generate
  \/ GenerateApiDatabase

ParserSpec == ParserInit /\ [][ParserNext]_vars

\* ------------------------------------------------------------------ parser and generator: properties

Parsed == fn = "parseSource" /\ pc = "return"
Generated == fn = "generate" /\ pc = "return"

\* The entries of a collection that carry a name.
EntriesNamed(collection, name) ==
  LET Is(r) == r.name = name IN SelectSeq(collection, Is)

\* Chain i of the source is a store chain bound to a variable, and chain j
\* is a child chain on that variable.
ParentAndChild(i, j) ==
  /\ isDatabaseChain(arg[i])
  /\ arg[i].variableName # Undefined
  /\ arg[j].rootMethod = "AddDatabase"
  /\ arg[j].baseObject = arg[i].variableName

\* Chain k is a store chain whose variable no child chain is on.
Childless(k) ==
  /\ isDatabaseChain(arg[k])
  /\ \A j \in DOMAIN arg :
       arg[j].rootMethod = "AddDatabase" => arg[j].baseObject # arg[k].variableName

\* The source declares the name of chain j once.
DeclaredOnce(j) == \A k \in DOMAIN arg : arg[k].name = arg[j].name => k = j

DeclaresStore(s) ==
  /\ isDatabaseChain(arg[s]) \/ arg[s].rootMethod = "AddDatabase"
  /\ arg[s].variableName # Undefined

\* Chain a declares an application with one reference, to the variable of
\* chain s.
ReferencesVariableOf(a, s) ==
  /\ isApplicationChain(arg[a]) /\ ~isContainerChain(arg[a])
  /\ LET IsReference(mth) == mth.method = "WithReference"
         refs == SelectSeq(arg[a].chainedMethods, IsReference)
     IN refs = <<Call("WithReference", <<Expr(arg[s].variableName)>>)>>

\* The edges of the assembled model from one name to another.
EdgesBetween(from, to) ==
  LET Is(e) == e.from = from /\ e.to = to IN SelectSeq(app.references, Is)

\* C13: after a parse without errors, for an application chain that
\* references the variable of a store chain (both names declared once), the
\* reference list holds exactly one edge from the application's name to the
\* store's name, and that edge carries a non-empty connection-string
\* variable name.
C13_ReferenceGivesOneEdge ==
  (Parsed /\ ret.errors = <<>>) =>
    \A a, s \in DOMAIN arg :
      (DeclaresStore(s) /\ ReferencesVariableOf(a, s)
         /\ DeclaredOnce(a) /\ DeclaredOnce(s)) =>
        /\ Len(EdgesBetween(arg[a].name, arg[s].name)) = 1
        /\ "connectionStringEnv" \in DOMAIN EdgesBetween(arg[a].name, arg[s].name)[1]
        /\ EdgesBetween(arg[a].name, arg[s].name)[1].connectionStringEnv # ""

\* The operation generate emits for a resource of a collection.
CommandOf(coll) ==
  CASE coll = "databases" -> "database:create"
    [] coll = "applications" -> "application:create"
    [] OTHER -> "service:create"

\* C14: the operations generate emits are, one for one, those of the stores
\* of the model, then of its storage-services, then of its services, then of
\* its applications, each collection in its own order, whatever the order of
\* the chains in the source.
C14_GenerateOrder ==
  Generated =>
    /\ Len(ret.commands) = Len(Resources)
    /\ \A k \in DOMAIN Resources :
         /\ ret.commands[k].name = Resources[k].x.name
         /\ ret.commands[k].command = CommandOf(Resources[k].coll)

\* A source that declares an application, then a storage-service, then a
\* store: the operations come out store, storage-service, application.
C14_Witness ==
  /\ Generated
  /\ arg = <<Chains.api, Chains.storage, Chains.cache>>
  /\ Len(ret.commands) = 3
  /\ ret.commands[1].name = "cache" /\ ret.commands[1].command = "database:create"
  /\ ret.commands[2].name = "files" /\ ret.commands[2].command = "service:create"
  /\ ret.commands[3].name = "api" /\ ret.commands[3].command = "application:create"

\* The extraction of a chain fails: its extractor throws.
ExtractionFails(chain) ==
  \/ isDatabaseChain(chain) /\ extractDatabase(chain).threw
  \/ /\ ~isDatabaseChain(chain) /\ ~isContainerChain(chain) /\ isApplicationChain(chain)
     /\ extractApplication(chain).threw

\* The resource chain j declares is in its collection of the assembled
\* model (for a server that has a child, its child stands for it).
Landed(j) ==
  LET name == arg[j].name IN
  IF isDatabaseChain(arg[j])
  THEN ~Childless(j) \/ EntriesNamed(app.databases, name) # <<>>
  ELSE IF arg[j].rootMethod = "AddDatabase"
  THEN EntriesNamed(app.databases, name) # <<>>
  ELSE IF isContainerChain(arg[j])
  THEN EntriesNamed(app.storage, name) # <<>> \/ EntriesNamed(app.services, name) # <<>>
  ELSE isApplicationChain(arg[j]) => EntriesNamed(app.applications, name) # <<>>

\* C17: when parseSource has returned, its error list holds one error for
\* each chain whose extraction failed, carrying the first hundred characters
\* of the chain's raw text as context, and every other chain has its
\* resource in the model.
C17_ChainFailureIsIsolated ==
  Parsed =>
    LET failing == SelectSeq(arg, ExtractionFails) IN
    /\ Len(ret.errors) = Len(failing)
    /\ \A k \in DOMAIN ret.errors :
         /\ k <= Len(failing)
         /\ "context" \in DOMAIN ret.errors[k]
         /\ ret.errors[k].context =
              SubSeq(failing[k].raw, 1,
                     IF Len(failing[k].raw) < ContextLength
                     THEN Len(failing[k].raw) ELSE ContextLength)
    /\ \A j \in DOMAIN arg : ~ExtractionFails(arg[j]) => Landed(j)

\* The collection the three membership tests send a chain to, the store
\* test first, then the container test, then the application test.
ClassOf(chain) ==
  IF chain.rootMethod \in DOMAIN DATABASE_METHODS THEN "databases"
  ELSE IF chain.rootMethod \in DOMAIN CONTAINER_METHODS
  THEN CASE CONTAINER_METHODS[chain.rootMethod] \in {"redis", "mongodb"} -> "databases"
         [] CONTAINER_METHODS[chain.rootMethod] = "minio" -> "storage"
         [] OTHER -> "services"
  ELSE IF chain.rootMethod \in DOMAIN APPLICATION_METHODS THEN "applications"
  ELSE "none"

\* The chains of the source that carry a name, are sent to a collection,
\* and whose extraction does not fail.
ChainsFor(coll, name) ==
  {j \in DOMAIN arg :
     arg[j].name = name /\ ClassOf(arg[j]) = coll /\ ~ExtractionFails(arg[j])}

\* The names of the chains of the source and of the entries of the model.
NamesInPlay ==
  {arg[j].name : j \in DOMAIN arg}
    \cup UNION {{app[coll][e].name : e \in DOMAIN app[coll]} :
                  coll \in {"databases", "storage", "services", "applications"}}

\* The entries of the store collection that the loop over the chains added
\* (a child store carries the variable of its server).
DirectStores(name) ==
  LET Is(r) == r.name = name /\ r.serverVariableName = Undefined
  IN SelectSeq(app.databases, Is)

FirstMatch(ref) ==
  LET all == app.databases \o app.services \o app.storage
      hits == {e \in DOMAIN all : all[e].name = ref \/ all[e].variableName = ref}
  IN IF hits = {} THEN <<>>
     ELSE <<all[CHOOSE e \in hits : \A f \in hits : e <= f]>>

\* The edges the reference targets of the entries of a collection resolve
\* to, as <<from, to>>, in the order of the entries and of their targets.
ResolvedEdges(owners) ==
  LET RECURSIVE OfTargets(_, _)
      OfTargets(from, refs) ==
        IF refs = <<>> THEN <<>>
        ELSE (IF FirstMatch(Head(refs)) = <<>> THEN <<>>
              ELSE <<<<from, FirstMatch(Head(refs))[1].name>>>>)
             \o OfTargets(from, Tail(refs))
      RECURSIVE OfOwners(_)
      OfOwners(rest) ==
        IF rest = <<>> THEN <<>>
        ELSE OfTargets(Head(rest).name, Head(rest).references) \o OfOwners(Tail(rest))
  IN OfOwners(owners)

\* C22: after a parse without errors the reference list is, edge for edge,
\* what the reference targets of the applications and then of the services
\* resolve to: one edge per target that names a store, a service or a
\* storage-service of the model, to the first one in the order stores,
\* services, storage.
C22_TargetsResolveInOrder ==
  (Parsed /\ ret.errors = <<>>) =>
    [k \in DOMAIN app.references |-> <<app.references[k].from, app.references[k].to>>]
      = ResolvedEdges(app.applications) \o ResolvedEdges(app.services)

\* The reference targets of the applications and of the services of the
\* model that name no store, service or storage-service, as <<owner's
\* collection, entry, position of the target>>.
UnresolvedTargets ==
  UNION {UNION {{<<coll, e, k>> :
                   k \in {k \in DOMAIN app[coll][e].references :
                            FirstMatch(app[coll][e].references[k]) = <<>>}} :
                e \in DOMAIN app[coll]} :
         coll \in {"applications", "services"}}

\* C23: when no chain's extraction fails, parseSource returns the model with
\* no error, and its warnings hold, for every owner name and target, as many
\* "Unresolved reference" lines as there are reference targets of that
\* owner (an application or a service) with that text that name no store,
\* service or storage-service of the model.
C23_UnresolvedTargetWarns ==
  (Parsed /\ \A j \in DOMAIN arg : ~ExtractionFails(arg[j])) =>
    /\ ret.errors = <<>>
    /\ ret.app = app
    /\ \A t \in UnresolvedTargets :
         LET owner == app[t[1]][t[2]]
             line == <<"Unresolved reference in ", owner.name, ": ", owner.references[t[3]]>>
         IN Cardinality({w \in DOMAIN ret.warnings : ret.warnings[w] = line})
              = Cardinality({u \in UnresolvedTargets :
                   /\ app[u[1]][u[2]].name = owner.name
                   /\ app[u[1]][u[2]].references[u[3]] = owner.references[t[3]]})
    /\ \A w \in DOMAIN ret.warnings :
         ret.warnings[w][1] = "Unresolved reference in " =>
           \E t \in UnresolvedTargets :
             /\ app[t[1]][t[2]].name = ret.warnings[w][2]
             /\ app[t[1]][t[2]].references[t[3]] = ret.warnings[w][4]

\* A warning has been written: a console.warn line, or an entry of the
\* error list the generator returns.
Warned ==
  \/ \E j \in DOMAIN trace : trace[j].what = "console.warn"
  \/ fn = "generate" /\ ret.errors # <<>>

\* C25: whenever a store of kind sqlserver is given the operation, the
\* request or the create call of PostgreSQL, a warning has been written: by
\* generate, by the API generator, and by deployToCloudify, where the
\* console.warn line of the store comes right before its create call.
C25_SubstitutionIsNeverSilent ==
  /\ Generated =>
       \A k \in DOMAIN app.databases :
         app.databases[k].type = "sqlserver" =>
           ret.commands[k].type = "postgres" /\ Warned
  /\ (fn = "generateDatabaseCommand" /\ arg.type = "sqlserver") =>
       ret.databaseType = "postgresql" /\ Warned
  /\ fn = "deployToCloudify" =>
       \A j \in CreateCalls :
         app[trace[j].coll][trace[j].idx].type = "sqlserver" =>
           /\ trace[j].what = "createPostgresDatabase"
           /\ trace[j - 1].what = "console.warn"
           /\ trace[j - 1].coll = trace[j].coll /\ trace[j - 1].idx = trace[j].idx

\* ------------------------------------------------------------------ extractors: behaviour

\* Number of chained methods of a chain.
MaxMethods == 3

\* The chained calls of the application chains and of the store chains the
\* extractors are run on.
ApplicationCalls ==
  {Call("WaitFor", <<Expr("cache")>>), Call("WaitFor", <<Expr("server")>>),
   Call("WaitFor", <<>>), Call("WithReference", <<Expr("cache")>>),
   Call("WithRunScript", <<>>),
   Call("WithHttpEndpoint", <<Named("port", Expr("5432"))>>),
   Call("PublishAsDockerFile", <<>>), Call("PublishAsDockerfile", <<>>),
   Call("PublishAsContainer", <<>>)}

\* The root calls of the application chains the extractor is run on:
\* builder.AddProject<Projects.Api>("api") and builder.AddNpmApp("web", "./web").
ApplicationRoots ==
  {[rootMethod |-> "AddProject", rootArgs |-> <<Lit("api")>>, typeArg |-> "Projects.Api"],
   [rootMethod |-> "AddNpmApp", rootArgs |-> <<Lit("web"), Lit("./web")>>,
    typeArg |-> Undefined]}

DatabaseCalls ==
  {Call("WithImageTag", <<Lit("16")>>), Call("WithImageTag", <<Lit("17")>>),
   Call("WithImageTag", <<Expr("tag")>>), Call("WithImage", <<Lit("img")>>),
   Lambda("RunAsContainer", <<Nested("WithImageTag", <<Lit("18")>>)>>),
   Lambda("RunAsContainer", <<Nested("WithImageTag", <<Lit("19")>>),
                              Nested("WithHostPort", <<Expr("5432")>>),
                              Nested("WithImageTag", <<Lit("20")>>)>>),
   Lambda("RunAsContainer", <<Nested("WithImage", <<>>)>>)}

ExtractorInit ==
  /\ \/ /\ fn = "extractApplication"
        /\ \E n \in 0..MaxMethods : \E mths \in [1..n -> ApplicationCalls] :
           \E root \in ApplicationRoots :
             arg = Chain(Undefined, "builder", root.rootMethod, root.rootArgs,
                         root.typeArg, mths, RawText("a", 10))
     \/ /\ fn = "extractDatabase"
        /\ \E n \in 0..MaxMethods : \E mths \in [1..n -> DatabaseCalls] :
             arg = Chain("server", "builder", "AddPostgres", <<Lit("pg")>>,
                         Undefined, mths, RawText("s", 12))
  /\ ret = <<>>
  /\ pc = "call"
  /\ app = EmptyAspireApp
  /\ NotDeploying

ExtractApplicationReturn ==
  /\ fn = "extractApplication"
  /\ pc = "call"
  /\ ret' = extractApplication(arg)
  /\ pc' = "return"
  /\ UNCHANGED <<fn, arg, app>>
  /\ UNCHANGED deployerVars

ExtractDatabaseReturn ==
  /\ fn = "extractDatabase"
  /\ pc = "call"
  /\ ret' = extractDatabase(arg)
  /\ pc' = "return"
  /\ UNCHANGED <<fn, arg, app>>
  /\ UNCHANGED deployerVars

ExtractorNext ==
  \/ ExtractApplicationReturn
  \/ ExtractDatabaseReturn

ExtractorSpec == ExtractorInit /\ [][ExtractorNext]_vars

\* ------------------------------------------------------------------ extractors: properties

\* The extractor has returned a record (it did not throw).
ApplicationExtracted == fn = "extractApplication" /\ pc = "return" /\ ~ret.threw
DatabaseExtracted == fn = "extractDatabase" /\ pc = "return" /\ ~ret.threw

\* The targets of the wait-for calls of the chain, in the order of the chain.
WaitTargets ==
  LET Waits(mth) == mth.method = "WaitFor" /\ mth.args # <<>>
      waits == SelectSeq(arg.chainedMethods, Waits)
  IN [k \in DOMAIN waits |-> waits[k].args[1].text]

\* C18: the dependency list of the extracted application holds the target of
\* every wait-for call of the chain, in the order of the calls; with two
\* calls on different targets, both targets, the first one first.
C18_WaitForAccumulates ==
  ApplicationExtracted => ret.value.waitFor = WaitTargets

\* Two wait-for calls on different targets, with another call between them.
C18_Witness ==
  /\ ApplicationExtracted
  /\ Len(arg.chainedMethods) = 3
  /\ arg.chainedMethods[1] = Call("WaitFor", <<Expr("server")>>)
  /\ arg.chainedMethods[2].method = "WithReference"
  /\ arg.chainedMethods[3] = Call("WaitFor", <<Expr("cache")>>)
  /\ ret.value.waitFor = <<"server", "cache">>

\* The values of the tag-setting calls of the chain in source order, those
\* of a run-as-container lambda at the place of the lambda: an outer call
\* gives its first string literal (undefined when it has none), a call
\* in a lambda the text of its argument.
TagValues ==
  LET RECURSIVE InLambda(_)
      InLambda(nesteds) ==
        IF nesteds = <<>> THEN <<>>
        ELSE (IF Head(nesteds).method = "WithImageTag"
              THEN <<Head(nesteds).args[1].text>> ELSE <<>>) \o InLambda(Tail(nesteds))
      RECURSIVE Of(_)
      Of(mths) ==
        IF mths = <<>> THEN <<>>
        ELSE (IF Head(mths).method = "WithImageTag"
              THEN <<IF Head(mths).args # <<>> /\ Head(mths).args[1].lit
                     THEN Head(mths).args[1].text ELSE Undefined>>
              ELSE IF Head(mths).method = "RunAsContainer"
              THEN InLambda(Head(mths).nested)
              ELSE <<>>) \o Of(Tail(mths))
  IN Of(arg.chainedMethods)

\* C19: the tag of the extracted store is the value of the last tag-setting
\* call of the chain, outer or replayed from a lambda; it is a single value,
\* whatever the number of calls.
C19_LastImageTagWins ==
  (DatabaseExtracted /\ TagValues # <<>>) =>
    ret.value.imageTag = TagValues[Len(TagValues)]

\* An outer call, then a lambda with two calls: four values, the last wins.
C19_Witness ==
  /\ DatabaseExtracted
  /\ TagValues = <<"16", "19", "20", "18">>
  /\ ret.value.imageTag = "18"

\* ------------------------------------------------------------------ tokenizer: extractFluentChains

\* Length of a source text, in pieces.
MaxPieces == 5

\* The normalized source text, cut into the pieces the scanner tells apart:
\* "R" a match of addMethodRegex (`builder.AddX(`, its last character the
\* open parenthesis), "M" a match of the chained-method pattern (`.WithY(`),
\* "(" and ")" other parentheses, ";" a semicolon, "q" a double quote, "s" a
\* white space, "x" any other character. No piece is a backslash.
Pieces == {"R", "M", "(", ")", ";", "q", "s", "x"}
Texts == UNION {[1..n -> Pieces] : n \in 0..MaxPieces}

\* findMatchingParen(source, openIndex), on positions from 1: the position of
\* the closing parenthesis, or 0 where the code returns -1.
findMatchingParen(source, openIndex) ==
  LET RECURSIVE Scan(_, _, _)
      Scan(i, depth, inString) ==
        IF i > Len(source) THEN 0
        ELSE LET nowInString == IF source[i] = "q" THEN ~inString ELSE inString
                 nowDepth == IF nowInString THEN depth
                             ELSE IF source[i] \in {"R", "M", "("} THEN depth + 1
                             ELSE IF source[i] = ")" THEN depth - 1
                             ELSE depth
             IN IF ~nowInString /\ source[i] = ")" /\ nowDepth = 0 THEN i
                ELSE Scan(i + 1, nowDepth, nowInString)
  IN Scan(openIndex, 0, FALSE)

\* The while loop that collects the chained methods from position pos on:
\* the methods pushed and the position the chain ends at.
ChainedMethods(source, pos, methods) ==
  LET RECURSIVE Loop(_, _)
      Loop(p, ms) ==
        LET RECURSIVE Skip(_)
            Skip(k) == IF k <= Len(source) /\ source[k] = "s" THEN Skip(k + 1) ELSE k
            at == Skip(p)
        IN IF at > Len(source) THEN [methods |-> ms, chainEndIdx |-> at]
           ELSE IF source[at] = ";" THEN [methods |-> ms, chainEndIdx |-> at + 1]
           ELSE IF source[at] # "M" THEN [methods |-> ms, chainEndIdx |-> at]
           ELSE IF findMatchingParen(source, at) = 0
           THEN [methods |-> ms, chainEndIdx |-> at]
           ELSE Loop(findMatchingParen(source, at) + 1,
                     Append(ms, [start |-> at, end |-> findMatchingParen(source, at)]))
  IN Loop(pos, methods)

\* extractFluentChains: one turn of the outer loop per match of the regex, in
\* the order of the text. A chain is [start, rootArgsEnd, chainedMethods,
\* chainEndIdx], in positions of the text.
extractFluentChains(source) ==
  LET RECURSIVE Matches(_)
      Matches(i) ==
        IF i > Len(source) THEN <<>>
        ELSE IF source[i] # "R" THEN Matches(i + 1)
        ELSE IF findMatchingParen(source, i) = 0 THEN Matches(i + 1)
        ELSE LET rootArgsEnd == findMatchingParen(source, i)
                 chained == ChainedMethods(source, rootArgsEnd + 1, <<>>)
             IN <<[start |-> i, rootArgsEnd |-> rootArgsEnd,
                   chainedMethods |-> chained.methods,
                   chainEndIdx |-> chained.chainEndIdx]>> \o Matches(i + 1)
  IN Matches(1)

TokenizerInit ==
  /\ fn = "extractFluentChains"
  /\ arg \in Texts
  /\ ret = <<>>
  /\ pc = "call"
  /\ app = EmptyAspireApp
  /\ NotDeploying

ExtractFluentChainsReturn ==
  /\ fn = "extractFluentChains"
  /\ pc = "call"
  /\ ret' = extractFluentChains(arg)
  /\ pc' = "return"
  /\ UNCHANGED <<fn, arg, app>>
  /\ UNCHANGED deployerVars

TokenizerNext == ExtractFluentChainsReturn

TokenizerSpec == TokenizerInit /\ [][TokenizerNext]_vars

\* ------------------------------------------------------------------ tokenizer: properties

Tokenized == fn = "extractFluentChains" /\ pc = "return"

\* The calls of the chain whose root call is at position i: the root call,
\* and each chained call that follows a call with matched parentheses.
CallsOf(i) ==
  LET RECURSIVE From(_)
      From(p) ==
        IF findMatchingParen(arg, p) = 0 THEN <<p>>
        ELSE LET RECURSIVE Skip(_)
                 Skip(k) == IF k <= Len(arg) /\ arg[k] = "s" THEN Skip(k + 1) ELSE k
                 next == Skip(findMatchingParen(arg, p) + 1)
             IN IF next <= Len(arg) /\ arg[next] = "M" THEN <<p>> \o From(next)
                ELSE <<p>>
  IN From(i)

\* The parentheses of the chain at i are unbalanced, in its root call or in
\* one of its chained calls.
Unbalanced(i) ==
  \E k \in DOMAIN CallsOf(i) : findMatchingParen(arg, CallsOf(i)[k]) = 0

Emitted(i) == \E c \in DOMAIN ret : ret[c].start = i

\* C15: a chain whose parentheses are unbalanced, in the root call or in a
\* chained call, gives no chain record, and every chain whose parentheses
\* are balanced gives one, wherever it stands in the text.
C15_UnbalancedChainIsSkipped ==
  Tokenized =>
    \A i \in DOMAIN arg :
      arg[i] = "R" => (Emitted(i) <=> ~Unbalanced(i))

\* ------------------------------------------------------------------ tokenizer: parseArgs

\* Length of an argument string, in characters.
MaxArgChars == 6

\* The characters parseArgs tells apart: the comma, the double quote, the
\* backslash, the brackets, the white space, and "a" for any other character.
Backslash == "\\"
ArgChars == {"a", ",", "\"", Backslash, "(", ")", "{", "}", " "}
ArgStrings == UNION {[1..n -> ArgChars] : n \in 0..MaxArgChars}

\* String.prototype.trim()
Trim(str) ==
  LET RECURSIVE Left(_)
      Left(t) == IF t # <<>> /\ Head(t) = " " THEN Left(Tail(t)) ELSE t
      RECURSIVE Right(_)
      Right(t) == IF t # <<>> /\ t[Len(t)] = " " THEN Right(SubSeq(t, 1, Len(t) - 1)) ELSE t
  IN Right(Left(str))

\* parseArgs: the loop over the characters, then the last argument.
parseArgs(argsStr) ==
  LET RECURSIVE Loop(_, _, _, _, _)
      Loop(i, args, current, depth, inString) ==
        IF i > Len(argsStr)
        THEN IF Trim(current) # <<>> THEN Append(args, Trim(current)) ELSE args
        ELSE LET char == argsStr[i]
                 prevChar == IF i > 1 THEN argsStr[i - 1] ELSE ""
                 nowInString == IF char = "\"" /\ prevChar # Backslash
                                THEN ~inString ELSE inString
                 nowDepth == IF nowInString THEN depth
                             ELSE IF char \in {"(", "{"} THEN depth + 1
                             ELSE IF char \in {")", "}"} THEN depth - 1
                             ELSE depth
             IN IF char = "," /\ nowDepth = 0 /\ ~nowInString
                THEN Loop(i + 1, Append(args, Trim(current)), <<>>, nowDepth, nowInString)
                ELSE Loop(i + 1, args, Append(current, char), nowDepth, nowInString)
  IN IF Trim(argsStr) = <<>> THEN <<>> ELSE Loop(1, <<>>, <<>>, 0, FALSE)

ArgsInit ==
  /\ fn = "parseArgs"
  /\ arg \in ArgStrings
  /\ ret = <<>>
  /\ pc = "call"
  /\ app = EmptyAspireApp
  /\ NotDeploying

ParseArgsReturn ==
  /\ fn = "parseArgs"
  /\ pc = "call"
  /\ ret' = parseArgs(arg)
  /\ pc' = "return"
  /\ UNCHANGED <<fn, arg, app>>
  /\ UNCHANGED deployerVars

ArgsNext == ParseArgsReturn

ArgsSpec == ArgsInit /\ [][ArgsNext]_vars

\* ------------------------------------------------------------------ parseArgs: properties

ArgsParsed == fn = "parseArgs" /\ pc = "return"

\* The argument list read by the rules of the language: a double quote
\* opens a string that runs to the next double quote that is not escaped, a
\* backslash in a string escapes the character after it, brackets nest and
\* close with their own kind, and a comma outside strings and brackets
\* separates two arguments. ok says the list is balanced and well formed;
\* args are the arguments, trimmed.
Reading(text) ==
  LET Closer(c) == IF c = "(" THEN ")" ELSE "}"
      RECURSIVE Read(_, _, _, _, _)
      Read(i, args, current, open, inString) ==
        IF i > Len(text)
        THEN [ok |-> ~inString /\ open = <<>>, args |-> Append(args, Trim(current))]
        ELSE IF inString
        THEN IF text[i] = Backslash
             THEN IF i = Len(text) THEN [ok |-> FALSE, args |-> <<>>]
                  ELSE Read(i + 2, args, current \o <<text[i], text[i + 1]>>, open, TRUE)
             ELSE Read(i + 1, args, Append(current, text[i]), open, text[i] # "\"")
        ELSE IF text[i] = Backslash THEN [ok |-> FALSE, args |-> <<>>]
        ELSE IF text[i] = "\"" THEN Read(i + 1, args, Append(current, text[i]), open, TRUE)
        ELSE IF text[i] \in {"(", "{"}
        THEN Read(i + 1, args, Append(current, text[i]),
                  <<Closer(text[i])>> \o open, FALSE)
        ELSE IF text[i] \in {")", "}"}
        THEN IF open # <<>> /\ Head(open) = text[i]
             THEN Read(i + 1, args, Append(current, text[i]), Tail(open), FALSE)
             ELSE [ok |-> FALSE, args |-> <<>>]
        ELSE IF text[i] = "," /\ open = <<>>
        THEN Read(i + 1, Append(args, Trim(current)), <<>>, open, FALSE)
        ELSE Read(i + 1, args, Append(current, text[i]), open, FALSE)
  IN Read(1, <<>>, <<>>, <<>>, FALSE)

\* A balanced, well-formed list of N >= 1 arguments, none of them blank.
WellFormedArgs(text) ==
  /\ Reading(text).ok
  /\ \A k \in DOMAIN Reading(text).args : Reading(text).args[k] # <<>>

\* C16: for a balanced, well-formed argument list parseArgs returns exactly
\* its top-level arguments: as many entries as arguments, and no argument
\* split at a comma that stands in a string or in brackets.
C16_ParseArgsSplitsTopLevelOnly ==
  (ArgsParsed /\ WellFormedArgs(arg)) => ret = Reading(arg).args

\* ------------------------------------------------------------------ extractors: publish calls

\* The publish modes of the publish calls of the chain, in the order of the
\* chain.
PublishModes ==
  LET Publishes(mth) ==
        mth.method \in {"PublishAsDockerFile", "PublishAsDockerfile", "PublishAsContainer"}
      calls == SelectSeq(arg.chainedMethods, Publishes)
  IN [k \in DOMAIN calls |->
        IF calls[k].method = "PublishAsContainer" THEN "container" ELSE "dockerfile"]

\* The same chained calls on another root call of the model.
OnRoot(root) ==
  Chain(arg.variableName, arg.baseObject, root.rootMethod, root.rootArgs,
        root.typeArg, arg.chainedMethods, arg.raw)

\* C24 as stated: an application whose chain holds a publish call has the
\* mode of its last publish call as its publish mode, and a build pack that
\* the call forces: it is the same whatever the root call of the chain, from
\* which the default build pack is inferred.
C24_PublishCallsForceBuildPack ==
  (ApplicationExtracted /\ PublishModes # <<>>) =>
    /\ ret.value.publishMode = PublishModes[Len(PublishModes)]
    /\ \A root \in ApplicationRoots :
         extractApplication(OnRoot(root)).value.buildPack = ret.value.buildPack

\* C24, amended: the publish mode of an application is the mode of the last
\* publish call of its chain (none without a publish call); its build pack
\* is dockerfile when the chain holds a PublishAsDockerFile or
\* PublishAsDockerfile call, and otherwise the build pack inferred from the
\* root call, with or without PublishAsContainer calls; its type is always
\* the one inferred from the root call.
C24_PublishModeRecorded ==
  ApplicationExtracted =>
    /\ ret.value.publishMode =
         (IF PublishModes = <<>> THEN Undefined ELSE PublishModes[Len(PublishModes)])
    /\ ret.value.buildPack =
         (IF \E k \in DOMAIN PublishModes : PublishModes[k] = "dockerfile"
          THEN "dockerfile" ELSE APPLICATION_METHODS[arg.rootMethod].buildPack)
    /\ ret.value.type = APPLICATION_METHODS[arg.rootMethod].type

\* AddNpmApp with PublishAsContainer alone, the build pack still nixpacks.
C24_Witness ==
  /\ ApplicationExtracted
  /\ arg.rootMethod = "AddNpmApp"
  /\ PublishModes = <<"container">>
  /\ ret.value.publishMode = "container"
  /\ ret.value.buildPack = "nixpacks"

====
